---- MODULE Spec2Model ----
(***************************************************************************)
(* BudgetWise store engine (src/budgetwise/app.js): the persistence        *)
(* adapter StorageService, the Store with its normalizers, mutations,      *)
(* import/export and the aggregation queries.                              *)
(*                                                                         *)
(* JavaScript values are tagged records: [k |-> "undef"], [k |-> "null"],  *)
(* [k |-> "num", n |-> i] (the integer i), [k |-> "frac", n |-> i] (the    *)
(* number i + 1/2), [k |-> "nan"], [k |-> "inf"], [k |-> "bool", b |-> _], *)
(* [k |-> "str", s |-> chars] and [k |-> "other"] (any other object).      *)
(* A string is the sequence of its symbols; a symbol is a natural number   *)
(* and strings compare lexicographically by symbol.  Symbol 0 is "|".      *)
(* A record field that is absent is [k |-> "undef"].                       *)
(***************************************************************************)
EXTENDS Integers, Sequences, FiniteSets, TLC

\* ------------------------------------------------------------ bounds
MaxTx == 2
MaxCats == 4
MaxRec == 1
MaxIds == 5
MaxListeners == 2
MaxClock == 2
MaxCalls == 4
MaxLimit == 2

\* ------------------------------------------------------------ JS values
Undef == [k |-> "undef"]
Null == [k |-> "null"]
NaN == [k |-> "nan"]
Inf == [k |-> "inf"]
Other == [k |-> "other"]
Num(i) == [k |-> "num", n |-> i]
Frac(i) == [k |-> "frac", n |-> i]
Bool(x) == [k |-> "bool", b |-> x]
Str(chars) == [k |-> "str", s |-> chars]

IsStr(v) == v.k = "str"

\* JavaScript truthiness (the operand of ||, &&, ?: and Boolean()).
Truthy(v) ==
  CASE v.k = "undef" -> FALSE
    [] v.k = "null" -> FALSE
    [] v.k = "nan" -> FALSE
    [] v.k = "bool" -> v.b
    [] v.k = "num" -> v.n # 0
    [] v.k = "str" -> v.s # <<>>
    [] OTHER -> TRUE

\* Number.isFinite(v): a number that is neither NaN nor an infinity.
IsFinite(v) == v.k \in {"num", "frac"}

\* ToNumber, as applied by Number(v) and by Math.trunc(v).  No string of
\* the model spells a number except the empty string, which converts to 0.
ToNumber(v) ==
  CASE v.k \in {"num", "frac", "nan", "inf"} -> v
    [] v.k = "null" -> Num(0)
    [] v.k = "bool" -> Num(IF v.b THEN 1 ELSE 0)
    [] v.k = "str" -> IF v.s = <<>> THEN Num(0) ELSE NaN
    [] OTHER -> NaN

\* Math.trunc on a number: i + 1/2 truncates towards zero.
MathTrunc(v) ==
  LET x == ToNumber(v)
  IN IF x.k = "frac" THEN Num(IF x.n >= 0 THEN x.n ELSE x.n + 1) ELSE x

\* Math.max(0, x) for x already truncated: NaN is contagious.
MathMax0(x) ==
  IF x.k = "num" THEN Num(IF x.n > 0 THEN x.n ELSE 0) ELSE x

\* Math.max(0, Math.trunc(v)), the coercion of buildTransaction.
CoerceAmount(v) == MathMax0(MathTrunc(v))

\* Math.max(0, Math.trunc(Number(v) || 0)), the coercion of the updates.
CoerceAmountOrZero(v) ==
  LET x == ToNumber(v)
  IN MathMax0(MathTrunc(IF Truthy(x) THEN x ELSE Num(0)))

\* ------------------------------------------------------------ strings
BAR == 0

RECURSIVE StrLess(_, _)
\* a < b in the lexicographic order of the symbols (localeCompare < 0).
StrLess(a, b) ==
  IF b = <<>> THEN FALSE
  ELSE IF a = <<>> THEN TRUE
  ELSE IF Head(a) # Head(b) THEN Head(a) < Head(b)
  ELSE StrLess(Tail(a), Tail(b))

\* a.localeCompare(b): negative, zero or positive.
LocaleCompare(a, b) == IF a = b THEN 0 ELSE IF StrLess(a, b) THEN -1 ELSE 1

RECURSIVE SplitBar(_)
\* s.split("|"): the pieces of s between the "|" symbols.
SplitBar(s) ==
  IF \A i \in 1..Len(s) : s[i] # BAR THEN <<s>>
  ELSE LET p == CHOOSE i \in 1..Len(s) :
                  s[i] = BAR /\ \A j \in 1..(i - 1) : s[j] # BAR
       IN <<SubSeq(s, 1, p - 1)>> \o SplitBar(SubSeq(s, p + 1, Len(s)))

\* ------------------------------------------------------------ constants
STORAGE_VERSION == 1

\* The words the program compares against, one symbol each.
INCOME == <<101>>
EXPENSE == <<102>>
NECESSITIES == <<111>>
LEISURE == <<112>>
SAVINGS == <<113>>
HOUSING == <<121>>
GROCERIES == <<122>>
FUN == <<123>>
UNTITLED == <<124>>
TEMPLATE == <<125>>
USD == <<131>>
EN_US == <<132>>

BUCKETS == {Str(NECESSITIES), Str(LEISURE), Str(SAVINGS)}

Arr(items) == [k |-> "arr", items |-> items]
Obj(fields) == [k |-> "obj", f |-> fields]

DEFAULT_RULE ==
  Obj([necessities |-> Num(50), leisure |-> Num(30), savings |-> Num(20)])

DEFAULT_SETTINGS ==
  [currency |-> Str(USD), locale |-> Str(EN_US), rule |-> DEFAULT_RULE,
   firstDayOfWeek |-> Num(1), showAdvancedCharts |-> Bool(FALSE),
   hapticFeedback |-> Bool(FALSE), schema_version |-> Num(STORAGE_VERSION)]

\* createId(): the n-th id generated by the program.  Generated ids are
\* pairwise distinct and sort in creation order.
GenId(n) == <<200 + n>>

\* The ids of DEFAULT_CATEGORIES are generated when the script is loaded.
DEFAULT_CATEGORIES ==
  << [id |-> Str(GenId(1)), name |-> Str(HOUSING),
      bucket |-> Str(NECESSITIES), archived |-> Bool(FALSE)],
     [id |-> Str(GenId(2)), name |-> Str(GROCERIES),
      bucket |-> Str(NECESSITIES), archived |-> Bool(FALSE)],
     [id |-> Str(GenId(3)), name |-> Str(FUN),
      bucket |-> Str(LEISURE), archived |-> Bool(FALSE)] >>

FirstFreeId == 4

\* new Date().toISOString() when the clock shows c: an ISO date is the
\* string <<year, month, day>>.
NowIso(c) == <<2024, c, 1>>

\* ------------------------------------------------------------ raw data
\* A raw value read from storage or handed to importData: an array is
\* Arr(items), an object with the fields the program reads is Obj(fields).
IsArray(v) == v.k = "arr"

\* item && typeof item === "object"
IsObject(v) == v.k \in {"obj", "other", "arr"}

\* item.name for a field the program reads; absent fields are undefined.
Field(v, name) ==
  IF v.k = "obj" /\ name \in DOMAIN v.f THEN v.f[name] ELSE Undef

\* The in-memory collection as the array of objects it is.
AsArray(list) == Arr([i \in 1..Len(list) |-> Obj(list[i])])

\* Number of items before position i that get a generated id.
NoIdBefore(items, i) ==
  Cardinality({j \in 1..(i - 1) : ~Truthy(Field(items[j], "id"))})

NoIdCount(items) == NoIdBefore(items, Len(items) + 1)

ObjectsOf(list) ==
  LET Keep(item) == IsObject(item)
  IN SelectSeq(list.items, Keep)

\* ------------------------------------------------------------ normalizers
\* { ...DEFAULT_SETTINGS, ...raw } with nothing forced or coerced.
normalizeSettingsSpread(raw) ==
  [name \in DOMAIN DEFAULT_SETTINGS |->
     IF Field(raw, name) # Undef THEN Field(raw, name)
     ELSE DEFAULT_SETTINGS[name]]

\* normalizeSettings(raw)
normalizeSettings(raw) ==
  LET Over(name) ==
        IF Field(raw, name) # Undef THEN Field(raw, name)
        ELSE DEFAULT_SETTINGS[name]
      rawRule == Field(raw, "rule")
      RuleOver(name) ==
        IF Truthy(rawRule) /\ Field(rawRule, name) # Undef
        THEN Field(rawRule, name) ELSE DEFAULT_RULE.f[name]
  IN [currency |-> Over("currency"),
      locale |-> Over("locale"),
      rule |-> Obj([necessities |-> RuleOver("necessities"),
                    leisure |-> RuleOver("leisure"),
                    savings |-> RuleOver("savings")]),
      firstDayOfWeek |->
        IF Over("firstDayOfWeek") = Num(0) THEN Num(0) ELSE Num(1),
      showAdvancedCharts |-> Bool(Truthy(Over("showAdvancedCharts"))),
      hapticFeedback |-> Bool(Truthy(Over("hapticFeedback"))),
      schema_version |-> Num(STORAGE_VERSION)]

\* normalizeCategories(list); next is the number of the next generated id.
normalizeCategories(list, next) ==
  IF ~IsArray(list) THEN <<>>
  ELSE LET objs == ObjectsOf(list)
       IN [i \in 1..Len(objs) |->
            [id |-> IF Truthy(Field(objs[i], "id")) THEN Field(objs[i], "id")
                    ELSE Str(GenId(next + NoIdBefore(objs, i))),
             name |-> IF IsStr(Field(objs[i], "name"))
                      THEN Field(objs[i], "name") ELSE Str(UNTITLED),
             bucket |-> IF Field(objs[i], "bucket") \in BUCKETS
                        THEN Field(objs[i], "bucket") ELSE Str(NECESSITIES),
             archived |-> Bool(Truthy(Field(objs[i], "archived")))]]

\* A normalizeTransactions that stamps every record with new Date().
normalizeTransactionsRedated(list, next, c) ==
  IF ~IsArray(list) THEN <<>>
  ELSE LET objs == ObjectsOf(list)
           mapped ==
             [i \in 1..Len(objs) |->
               [id |-> IF Truthy(Field(objs[i], "id"))
                       THEN Field(objs[i], "id")
                       ELSE Str(GenId(next + NoIdBefore(objs, i))),
                type |-> IF Field(objs[i], "type") = Str(INCOME)
                         THEN Str(INCOME) ELSE Str(EXPENSE),
                amount_cents |->
                  IF IsFinite(Field(objs[i], "amount_cents"))
                  THEN MathMax0(MathTrunc(Field(objs[i], "amount_cents")))
                  ELSE Num(0),
                description |-> IF IsStr(Field(objs[i], "description"))
                                THEN Field(objs[i], "description")
                                ELSE Str(<<>>),
                category_id |-> IF Truthy(Field(objs[i], "category_id"))
                                THEN Field(objs[i], "category_id") ELSE Null,
                bucket |-> IF Field(objs[i], "bucket") \in BUCKETS
                           THEN Field(objs[i], "bucket") ELSE Null,
                date_iso |-> Str(NowIso(c))]]
           Positive(tx) == tx.amount_cents.n > 0
       IN SelectSeq(mapped, Positive)

\* normalizeTransactions(list); c is the clock read by new Date().
normalizeTransactions(list, next, c) ==
  IF ~IsArray(list) THEN <<>>
  ELSE LET objs == ObjectsOf(list)
           mapped ==
             [i \in 1..Len(objs) |->
               [id |-> IF Truthy(Field(objs[i], "id"))
                       THEN Field(objs[i], "id")
                       ELSE Str(GenId(next + NoIdBefore(objs, i))),
                type |-> IF Field(objs[i], "type") = Str(INCOME)
                         THEN Str(INCOME) ELSE Str(EXPENSE),
                amount_cents |->
                  IF IsFinite(Field(objs[i], "amount_cents"))
                  THEN MathMax0(MathTrunc(Field(objs[i], "amount_cents")))
                  ELSE Num(0),
                description |-> IF IsStr(Field(objs[i], "description"))
                                THEN Field(objs[i], "description")
                                ELSE Str(<<>>),
                category_id |-> IF Truthy(Field(objs[i], "category_id"))
                                THEN Field(objs[i], "category_id") ELSE Null,
                bucket |-> IF Field(objs[i], "bucket") \in BUCKETS
                           THEN Field(objs[i], "bucket") ELSE Null,
                date_iso |-> IF IsStr(Field(objs[i], "date_iso"))
                             THEN Field(objs[i], "date_iso")
                             ELSE Str(NowIso(c))]]
           Positive(tx) == tx.amount_cents.n > 0
       IN SelectSeq(mapped, Positive)

\* normalizeRecurring(list)
normalizeRecurring(list, next) ==
  IF ~IsArray(list) THEN <<>>
  ELSE LET objs == ObjectsOf(list)
       IN [i \in 1..Len(objs) |->
            [id |-> IF Truthy(Field(objs[i], "id")) THEN Field(objs[i], "id")
                    ELSE Str(GenId(next + NoIdBefore(objs, i))),
             description |-> IF IsStr(Field(objs[i], "description"))
                             THEN Field(objs[i], "description")
                             ELSE Str(<<>>),
             default_amount_cents |->
               IF IsFinite(Field(objs[i], "default_amount_cents"))
               THEN MathMax0(MathTrunc(Field(objs[i], "default_amount_cents")))
               ELSE Num(0),
             category_id |-> IF Truthy(Field(objs[i], "category_id"))
                             THEN Field(objs[i], "category_id") ELSE Null]]

\* Ids consumed by a normalizer on a list.
IdsUsed(list) == IF IsArray(list) THEN NoIdCount(ObjectsOf(list)) ELSE 0

\* ------------------------------------------------------------ storage
\* localStorage holds, per key, nothing, a text that does not parse, or
\* the JSON value that its text parses to.
Absent == [k |-> "absent"]
Corrupt == [k |-> "corrupt"]

STORAGE_KEYS == {"settings", "categories", "transactions", "recurring"}

\* localStorage with none of the four keys.
FreshStorage ==
  [settings |-> Absent, categories |-> Absent, transactions |-> Absent,
   recurring |-> Absent]

\* JSON.stringify then JSON.parse of a value: NaN and the infinities are
\* written as null, an undefined field is not written.
JsonVal(v) ==
  CASE v.k \in {"nan", "inf"} -> Null
    [] v.k = "obj" ->
         Obj([name \in DOMAIN v.f |->
               IF v.f[name].k \in {"nan", "inf"} THEN Null ELSE v.f[name]])
    [] OTHER -> v

JsonRec(rec) == [name \in DOMAIN rec |-> JsonVal(rec[name])]

\* StorageService.write(key, list) for a collection / for the settings.
JsonList(list) == Arr([i \in 1..Len(list) |-> Obj(JsonRec(list[i]))])
JsonSettings(s) == Obj(JsonRec(s))

\* StorageService.read(key, fallback): the parsed value or the fallback.
read(store, key, fallback) ==
  IF store[key].k \in {"absent", "corrupt"} THEN fallback ELSE store[key]

\* A read that reports no parse error.
CorruptKeysNone(store) == {}

\* The keys whose read reports a parse error.
CorruptKeysOf(store) == {key \in STORAGE_KEYS : store[key] = Corrupt}

\* Defaults that seed no starter categories.
ensureDefaultsBare(store) ==
  [settings |-> JsonSettings(DEFAULT_SETTINGS), categories |-> Arr(<<>>),
   transactions |-> Arr(<<>>), recurring |-> Arr(<<>>)]

\* StorageService.ensureDefaults(): the storage it leaves.
ensureDefaults(store) ==
  LET storedSettings == read(store, "settings", Null)
  IN [settings |->
        IF ~Truthy(storedSettings)
           \/ Field(storedSettings, "schema_version") # Num(STORAGE_VERSION)
        THEN JsonSettings(DEFAULT_SETTINGS) ELSE store.settings,
      categories |->
        IF ~IsArray(read(store, "categories", Null))
        THEN JsonList(DEFAULT_CATEGORIES) ELSE store.categories,
      transactions |->
        IF ~IsArray(read(store, "transactions", Null))
        THEN Arr(<<>>) ELSE store.transactions,
      recurring |->
        IF ~IsArray(read(store, "recurring", Null))
        THEN Arr(<<>>) ELSE store.recurring]

\* list.filter(Boolean) on a parsed array.
FilterBoolean(list) ==
  LET Keep(item) == Truthy(item)
  IN IF IsArray(list) THEN Arr(SelectSeq(list.items, Keep)) ELSE list

\* StorageService.getSnapshot()
getSnapshot(store) ==
  [settings |-> read(store, "settings", JsonSettings(DEFAULT_SETTINGS)),
   categories |-> FilterBoolean(read(store, "categories", Arr(<<>>))),
   transactions |-> FilterBoolean(read(store, "transactions", Arr(<<>>))),
   recurring |-> FilterBoolean(read(store, "recurring", Arr(<<>>)))]

\* ------------------------------------------------------------ store state
VARIABLES
  settings,       \* state.settings
  categories,     \* state.categories
  transactions,   \* state.transactions
  recurring,      \* state.recurring
  corruption,     \* state.corruption
  storage,        \* window.localStorage, by STORAGE_KEYS
  corruptedKeys,  \* StorageService's corruptedKeys
  listeners,      \* Store's listeners, in insertion order
  delivered,      \* what the last operation handed to the listeners
  lastOp,         \* the last operation, its arguments and its outcome
  nextId,         \* number of the next id createId() generates
  clock,          \* the time new Date() reads
  ready,          \* Store.init() has run
  page            \* a caller paging through getRecentTransactions

vars ==
  <<settings, categories, transactions, recurring, corruption, storage,
    corruptedKeys, listeners, delivered, lastOp, nextId, clock, ready,
    page>>


\* compareTransactionsDesc(a, b)
compareTransactionsDesc(a, b) ==
  IF a.date_iso # b.date_iso
  THEN LocaleCompare(b.date_iso.s, a.date_iso.s)
  ELSE LocaleCompare(b.id.s, a.id.s)

\* One insertion of the stable sort: x goes behind every element that does
\* not compare after it.
InsertTx(sorted, x) ==
  LET before == {i \in 1..Len(sorted) :
                   compareTransactionsDesc(sorted[i], x) <= 0}
      p == IF before = {} THEN 0
           ELSE CHOOSE i \in before : \A j \in before : j <= i
  IN SubSeq(sorted, 1, p) \o <<x>> \o SubSeq(sorted, p + 1, Len(sorted))

RECURSIVE SortTx(_)
\* list.sort(compareTransactionsDesc): Array.prototype.sort is stable.
SortTx(list) ==
  IF list = <<>> THEN <<>>
  ELSE CHOOSE result \in
         {InsertTx(sorted, list[Len(list)]) :
            sorted \in {SortTx(SubSeq(list, 1, Len(list) - 1))}} : TRUE

\* getState()
getState(s, cats, txs, recs, corr) ==
  [settings |-> s, categories |-> cats, transactions |-> txs,
   recurring |-> recs, corruption |-> corr]

\* A persist() that skips saveTransactions.
persistStale(s, cats, txs, recs) ==
  [settings |-> JsonSettings(s), categories |-> JsonList(cats),
   transactions |-> JsonList(<<>>), recurring |-> JsonList(recs)]

\* persist(): the storage after the four saves.
persist(s, cats, txs, recs) ==
  [settings |-> JsonSettings(s), categories |-> JsonList(cats),
   transactions |-> JsonList(txs), recurring |-> JsonList(recs)]

\* A notify(detail) that stops after the first listener.
notifyFirst(ls, st, persisted, detail) ==
  IF ls = <<>> THEN [to |-> <<>>]
  ELSE [to |-> <<ls[1]>>, state |-> st, persisted |-> persisted,
        detail |-> detail]

\* notify(detail): every listener, in insertion order, is called once with
\* getState() and the detail; persisted is the storage the listener finds.
notify(ls, st, persisted, detail) ==
  IF ls = <<>> THEN [to |-> <<>>]
  ELSE [to |-> ls, state |-> st, persisted |-> persisted, detail |-> detail]

NoDelivery == [to |-> <<>>]

\* A lookup that finds no category.
getCategoryBucketNone(cats, categoryId) == Null

\* getCategoryBucket(categoryId)
getCategoryBucket(cats, categoryId) ==
  LET hits == {i \in 1..Len(cats) : cats[i].id = categoryId}
  IN IF hits = {} THEN Null
     ELSE cats[CHOOSE i \in hits : \A j \in hits : i <= j].bucket

\* buildTransaction(draft): destructuring defaults replace undefined only.
buildTransaction(draft, cats, idNumber, c) ==
  LET Default(name, v) ==
        IF Field(draft, name) = Undef THEN v ELSE Field(draft, name)
      description == Default("description", Str(<<>>))
      category_id == Default("category_id", Null)
      bucket == Default("bucket", Null)
      date_iso == Default("date_iso", Str(NowIso(c)))
      normalizedType ==
        IF Field(draft, "type") = Str(INCOME) THEN Str(INCOME)
        ELSE Str(EXPENSE)
      amount == CoerceAmount(Field(draft, "amount_cents"))
      resolvedBucket ==
        IF normalizedType = Str(EXPENSE) /\ bucket \in BUCKETS THEN bucket
        ELSE IF normalizedType = Str(EXPENSE) /\ Truthy(category_id)
        THEN getCategoryBucket(cats, category_id)
        ELSE Null
  IN [id |-> Str(GenId(idNumber)),
      type |-> normalizedType,
      amount_cents |-> amount,
      description |-> IF Truthy(description) THEN description ELSE Str(<<>>),
      category_id |->
        IF normalizedType = Str(EXPENSE) THEN category_id ELSE Null,
      bucket |-> IF normalizedType = Str(EXPENSE) THEN resolvedBucket ELSE Null,
      date_iso |-> date_iso]

\* The statements of updateTransaction in another order: the sort is applied
\* to the array in place before the mapped array is assigned.
updateTransactionSortedFirst ==
  <<[kind |-> "inplace", field |-> "transactions"],
    [kind |-> "assign", field |-> "transactions"]>>

\* updateTransaction: state.transactions = state.transactions.map(...), then
\* state.transactions.sort(compareTransactionsDesc).
updateTransactionEffects ==
  <<[kind |-> "assign", field |-> "transactions"],
    [kind |-> "inplace", field |-> "transactions"]>>

\* What each operation does to the objects state refers to, in the order of
\* its statements: "assign" stores a newly built object (a spread, a map, a
\* filter, a normalizer's result, an object literal) in the field, "inplace"
\* calls a mutating method (sort) on the object the field refers to. The
\* queries build their own arrays and have no statements.
Effects(op) ==
  LET assign(field) == [kind |-> "assign", field |-> field]
      loaded == <<assign("settings"), assign("categories"),
                  assign("transactions"), assign("recurring")>>
  IN CASE op = "init" -> loaded \o <<assign("corruption")>>
       [] op = "addTransaction" -> <<assign("transactions")>>
       [] op = "updateTransaction" -> updateTransactionEffects
       [] op = "deleteTransaction" -> <<assign("transactions")>>
       [] op \in {"addCategory", "updateCategory"} -> <<assign("categories")>>
       [] op \in {"addRecurring", "updateRecurring", "deleteRecurring"} ->
            <<assign("recurring")>>
       [] op = "saveSettings" -> <<assign("settings")>>
       [] op = "importData" -> loaded
       [] op = "reset" -> loaded
       [] OTHER -> <<>>

\* ------------------------------------------------------------ operations
\* Store.init(): StorageService.init(), loadFromStorage(), notify.
InitStore ==
  LET ensured == ensureDefaults(storage)
      keys == CorruptKeysOf(storage) \cup CorruptKeysOf(ensured)
      snapshot == getSnapshot(ensured)
      n1 == nextId + IdsUsed(snapshot.categories)
      n2 == n1 + IdsUsed(snapshot.transactions)
      n3 == n2 + IdsUsed(snapshot.recurring)
  IN /\ n3 - 1 <= MaxIds
     /\ storage' = ensured
     /\ corruptedKeys' = keys
     /\ settings' = normalizeSettings(snapshot.settings)
     /\ categories' = normalizeCategories(snapshot.categories, nextId)
     /\ transactions' = normalizeTransactions(snapshot.transactions, n1, clock)
     /\ recurring' = normalizeRecurring(snapshot.recurring, n2)
     /\ corruption' = [hasCorruption |-> keys # {}, keys |-> keys]
     /\ nextId' = n3
     /\ delivered' =
          notify(listeners,
                 getState(settings', categories', transactions', recurring',
                          corruption'),
                 storage', [type |-> "init"])
     /\ lastOp' = [op |-> "init"]
     /\ ready' = TRUE
     /\ UNCHANGED <<listeners, clock, page>>

\* Store.subscribe(callback)
Subscribe(l) ==
  /\ \A i \in 1..Len(listeners) : listeners[i] # l
  /\ listeners' = Append(listeners, l)
  /\ delivered' = NoDelivery
  /\ lastOp' = [op |-> "subscribe", listener |-> l]
  /\ UNCHANGED <<settings, categories, transactions, recurring, corruption,
                 storage, corruptedKeys, nextId, clock, ready, page>>

\* The function returned by Store.subscribe(callback).
Unsubscribe(l) ==
  /\ \E i \in 1..Len(listeners) : listeners[i] = l
  /\ listeners' = SelectSeq(listeners, LAMBDA x : x # l)
  /\ delivered' = NoDelivery
  /\ lastOp' = [op |-> "unsubscribe", listener |-> l]
  /\ UNCHANGED <<settings, categories, transactions, recurring, corruption,
                 storage, corruptedKeys, nextId, clock, ready, page>>

\* The tail of every mutation: the new collections are assigned, persist()
\* writes them and notify(detail) hands them to the listeners.
Commit(s, cats, txs, recs, detail, op) ==
  /\ \E new \in {getState(s, cats, txs, recs, corruption)} :
       /\ settings' = new.settings
       /\ categories' = new.categories
       /\ transactions' = new.transactions
       /\ recurring' = new.recurring
       /\ \E saved \in {persist(new.settings, new.categories,
                                new.transactions, new.recurring)} :
            /\ storage' = saved
            /\ delivered' = notify(listeners, new, saved, detail)
  /\ lastOp' = op
  /\ UNCHANGED <<corruption, corruptedKeys, listeners, clock, ready, page>>

\* {...record, ...updates}: the fields the updates carry replace the record's.
Spread(record, updates) ==
  [name \in DOMAIN record |->
     IF Field(updates, name) # Undef THEN Field(updates, name)
     ELSE record[name]]

\* list.find(x => x.id === id), null when there is none.
FindById(list, id) ==
  LET hits == {i \in 1..Len(list) : list[i].id = id}
  IN IF hits = {} THEN Null
     ELSE Obj(list[CHOOSE i \in hits : \A j \in hits : i <= j])

\* The target of an update: the replacement of the last element of the list
\* that carries the id, null when none does.
LastById(list, id, mapped) ==
  LET hits == {i \in 1..Len(list) : list[i].id = id}
  IN IF hits = {} THEN Null
     ELSE Obj(mapped[CHOOSE i \in hits : \A j \in hits : j <= i])

\* A removal of the first element carrying the id only.
WithoutFirstId(list, id) ==
  LET hits == {i \in 1..Len(list) : list[i].id = id}
  IN IF hits = {} THEN list
     ELSE LET k == CHOOSE i \in hits : \A j \in hits : i <= j
          IN SubSeq(list, 1, k - 1) \o SubSeq(list, k + 1, Len(list))

\* list.filter(x => x.id !== id)
WithoutId(list, id) == SelectSeq(list, LAMBDA x : x.id # id)

\* Store.addTransaction(payload)
AddTransaction(draft) ==
  /\ ready
  /\ Len(transactions) < MaxTx
  /\ nextId <= MaxIds
  /\ LET transaction == buildTransaction(draft, categories, nextId, clock)
     IN Commit(settings, categories,
               SortTx(Append(transactions, transaction)), recurring,
               [type |-> "transactions:add", transaction |-> Obj(transaction)],
               [op |-> "addTransaction", result |-> Obj(transaction)])
  /\ nextId' = nextId + 1

\* The record updateTransaction puts in the place of tx.
mergeTransaction(tx, updates, cats, c) ==
  LET merged == Spread(tx, updates)
      isExpense == merged.type = Str(EXPENSE)
  IN [merged EXCEPT
        !.bucket = IF isExpense
                   THEN IF merged.bucket \in BUCKETS THEN merged.bucket
                        ELSE getCategoryBucket(cats, merged.category_id)
                   ELSE Null,
        !.category_id = IF isExpense THEN merged.category_id ELSE Null,
        !.amount_cents = CoerceAmountOrZero(merged.amount_cents),
        !.date_iso = IF IsStr(merged.date_iso) THEN merged.date_iso
                     ELSE Str(NowIso(c))]

\* Store.updateTransaction(id, updates)
UpdateTransaction(id, updates) ==
  /\ ready
  /\ LET mapped ==
           [i \in 1..Len(transactions) |->
              IF transactions[i].id # id THEN transactions[i]
              ELSE mergeTransaction(transactions[i], updates, categories,
                                    clock)]
         target == LastById(transactions, id, mapped)
     IN Commit(settings, categories, SortTx(mapped), recurring,
               [type |-> "transactions:update", transaction |-> target],
               [op |-> "updateTransaction", id |-> id, updates |-> updates,
                result |-> target])
  /\ UNCHANGED nextId

\* Store.deleteTransaction(id)
DeleteTransaction(id) ==
  /\ ready
  /\ LET removed == FindById(transactions, id)
     IN Commit(settings, categories, WithoutId(transactions, id), recurring,
               [type |-> "transactions:delete", transaction |-> removed],
               [op |-> "deleteTransaction", id |-> id, result |-> removed])
  /\ UNCHANGED nextId

SPACE == 32

RECURSIVE TrimStart(_)
TrimStart(chars) ==
  IF chars # <<>> /\ Head(chars) = SPACE THEN TrimStart(Tail(chars))
  ELSE chars

RECURSIVE TrimEnd(_)
TrimEnd(chars) ==
  IF chars # <<>> /\ chars[Len(chars)] = SPACE
  THEN TrimEnd(SubSeq(chars, 1, Len(chars) - 1))
  ELSE chars

\* text.trim()
Trim(text) == Str(TrimEnd(TrimStart(text.s)))

\* Store.addCategory({ name, bucket })
AddCategory(name, bucket) ==
  /\ ready
  /\ Len(categories) < MaxCats
  /\ nextId <= MaxIds
  /\ LET category ==
           [id |-> Str(GenId(nextId)),
            name |-> IF Truthy(Trim(name)) THEN Trim(name) ELSE Str(UNTITLED),
            bucket |-> IF bucket \in BUCKETS THEN bucket ELSE Str(NECESSITIES),
            archived |-> Bool(FALSE)]
     IN Commit(settings, Append(categories, category), transactions,
               recurring,
               [type |-> "categories:add", category |-> Obj(category)],
               [op |-> "addCategory", result |-> Obj(category)])
  /\ nextId' = nextId + 1

\* The record updateCategory puts in the place of cat.
mergeCategory(cat, updates) ==
  LET target == Spread(cat, updates)
  IN [target EXCEPT
        !.bucket = IF target.bucket \in BUCKETS THEN target.bucket
                   ELSE Str(NECESSITIES)]

\* An updateCategory that also gives the category's bucket to the
\* transactions that refer to the category.
UpdateCategoryRebucketing(id, updates) ==
  /\ ready
  /\ LET mapped ==
           [i \in 1..Len(categories) |->
              IF categories[i].id # id THEN categories[i]
              ELSE mergeCategory(categories[i], updates)]
         target == LastById(categories, id, mapped)
         moved ==
           [i \in 1..Len(transactions) |->
              IF transactions[i].category_id # id \/ target = Null
              THEN transactions[i]
              ELSE [transactions[i] EXCEPT !.bucket = Field(target, "bucket")]]
     IN Commit(settings, mapped, moved, recurring,
               [type |-> "categories:update", category |-> target],
               [op |-> "updateCategory", id |-> id, updates |-> updates,
                result |-> target])
  /\ UNCHANGED nextId

\* Store.updateCategory(id, updates)
UpdateCategory(id, updates) ==
  /\ ready
  /\ LET mapped ==
           [i \in 1..Len(categories) |->
              IF categories[i].id # id THEN categories[i]
              ELSE mergeCategory(categories[i], updates)]
         target == LastById(categories, id, mapped)
     IN Commit(settings, mapped, transactions, recurring,
               [type |-> "categories:update", category |-> target],
               [op |-> "updateCategory", id |-> id, updates |-> updates,
                result |-> target])
  /\ UNCHANGED nextId

\* Store.archiveCategory(id, archived)
ArchiveCategory(id, archived) ==
  UpdateCategory(id, Obj([archived |-> Bool(Truthy(archived))]))

\* Store.addRecurring({ description, default_amount_cents, category_id })
AddRecurring(description, amount, category_id) ==
  /\ ready
  /\ Len(recurring) < MaxRec
  /\ nextId <= MaxIds
  /\ LET template ==
           [id |-> Str(GenId(nextId)),
            description |-> IF Truthy(Trim(description)) THEN Trim(description)
                            ELSE Str(TEMPLATE),
            default_amount_cents |-> CoerceAmountOrZero(amount),
            category_id |-> IF Truthy(category_id) THEN category_id ELSE Null]
     IN Commit(settings, categories, transactions, Append(recurring, template),
               [type |-> "recurring:add", template |-> Obj(template)],
               [op |-> "addRecurring", result |-> Obj(template)])
  /\ nextId' = nextId + 1

\* The record updateRecurring puts in the place of template.
mergeRecurring(template, updates) ==
  LET target == Spread(template, updates)
  IN [target EXCEPT
        !.default_amount_cents =
           CoerceAmountOrZero(target.default_amount_cents)]

\* Store.updateRecurring(id, updates)
UpdateRecurring(id, updates) ==
  /\ ready
  /\ LET mapped ==
           [i \in 1..Len(recurring) |->
              IF recurring[i].id # id THEN recurring[i]
              ELSE mergeRecurring(recurring[i], updates)]
         target == LastById(recurring, id, mapped)
     IN Commit(settings, categories, transactions, mapped,
               [type |-> "recurring:update", template |-> target],
               [op |-> "updateRecurring", id |-> id, updates |-> updates,
                result |-> target])
  /\ UNCHANGED nextId

\* Store.deleteRecurring(id)
DeleteRecurring(id) ==
  /\ ready
  /\ LET target == FindById(recurring, id)
     IN Commit(settings, categories, transactions, WithoutId(recurring, id),
               [type |-> "recurring:delete", template |-> target],
               [op |-> "deleteRecurring", id |-> id, result |-> target])
  /\ UNCHANGED nextId

\* Store.saveSettings(updates)
SaveSettings(updates) ==
  /\ ready
  /\ Commit(normalizeSettings(Obj(Spread(settings, updates))), categories,
            transactions, recurring,
            [type |-> "settings:update"],
            [op |-> "saveSettings", updates |-> updates])
  /\ UNCHANGED nextId

\* Store.reset(): StorageService.reset() removes the four keys and runs
\* init(); the snapshot it returns is normalized; no persist().
Reset ==
  LET ensured == ensureDefaults(FreshStorage)
      snapshot == getSnapshot(ensured)
      n1 == nextId + IdsUsed(snapshot.categories)
      n2 == n1 + IdsUsed(snapshot.transactions)
      n3 == n2 + IdsUsed(snapshot.recurring)
  IN /\ ready
     /\ n3 - 1 <= MaxIds
     /\ storage' = ensured
     /\ corruptedKeys' = CorruptKeysOf(FreshStorage) \cup CorruptKeysOf(ensured)
     /\ settings' = normalizeSettings(snapshot.settings)
     /\ categories' = normalizeCategories(snapshot.categories, nextId)
     /\ transactions' = normalizeTransactions(snapshot.transactions, n1, clock)
     /\ recurring' = normalizeRecurring(snapshot.recurring, n2)
     /\ nextId' = n3
     /\ delivered' =
          notify(listeners,
                 getState(settings', categories', transactions', recurring',
                          corruption),
                 storage', [type |-> "app:reset"])
     /\ lastOp' = [op |-> "reset"]
     /\ UNCHANGED <<corruption, listeners, clock, ready, page>>

\* Store.exportData()
exportData(s, cats, txs, recs) ==
  Obj([schema_version |-> Num(STORAGE_VERSION), settings |-> Obj(s),
       categories |-> AsArray(cats), transactions |-> AsArray(txs),
       recurring |-> AsArray(recs)])

\* dedupeById(list): the first record of every truthy id.
dedupeById(list) ==
  LET kept == {i \in 1..Len(list) :
                 /\ Truthy(list[i].id)
                 /\ \A j \in 1..(i - 1) : list[j].id # list[i].id}
      Nth(n) == CHOOSE i \in kept : Cardinality({j \in kept : j < i}) = n - 1
  IN [n \in 1..Cardinality(kept) |-> list[Nth(n)]]

\* An import that appends to the current collections under either strategy.
importResultAppending(payload, strategy, s, cats, txs, recs, next, c) ==
  LET rawCats == Field(payload, "categories")
      rawRecs == Field(payload, "recurring")
      rawTxs == Field(payload, "transactions")
      n1 == next + IdsUsed(rawCats)
      n2 == n1 + IdsUsed(rawRecs)
  IN [next |-> n2 + IdsUsed(rawTxs),
      settings |-> normalizeSettings(Field(payload, "settings")),
      categories |-> cats \o normalizeCategories(rawCats, next),
      transactions |-> SortTx(txs \o normalizeTransactions(rawTxs, n2, c)),
      recurring |-> recs \o normalizeRecurring(rawRecs, n1)]

\* An import that replaces the current collections under either strategy.
importResultReplacing(payload, strategy, s, cats, txs, recs, next, c) ==
  LET rawCats == Field(payload, "categories")
      rawRecs == Field(payload, "recurring")
      rawTxs == Field(payload, "transactions")
      n1 == next + IdsUsed(rawCats)
      n2 == n1 + IdsUsed(rawRecs)
  IN [next |-> n2 + IdsUsed(rawTxs),
      settings |-> normalizeSettings(Field(payload, "settings")),
      categories |-> normalizeCategories(rawCats, next),
      transactions |-> SortTx(normalizeTransactions(rawTxs, n2, c)),
      recurring |-> normalizeRecurring(rawRecs, n1)]

\* The collections importData assigns.
importResult(payload, strategy, s, cats, txs, recs, next, c) ==
  LET rawCats == Field(payload, "categories")
      rawRecs == Field(payload, "recurring")
      rawTxs == Field(payload, "transactions")
      n1 == next + IdsUsed(rawCats)
      n2 == n1 + IdsUsed(rawRecs)
      imported ==
        [settings |-> normalizeSettings(Field(payload, "settings")),
         categories |-> normalizeCategories(rawCats, next),
         transactions |-> normalizeTransactions(rawTxs, n2, c),
         recurring |-> normalizeRecurring(rawRecs, n1)]
      NewCategory(cat) == \A i \in 1..Len(cats) : cats[i].id # cat.id
  IN IF strategy = "merge"
     THEN [next |-> n2 + IdsUsed(rawTxs),
           settings |-> imported.settings,
           categories |-> cats \o SelectSeq(imported.categories, NewCategory),
           transactions |-> SortTx(dedupeById(txs \o imported.transactions)),
           recurring |-> dedupeById(recs \o imported.recurring)]
     ELSE [next |-> n2 + IdsUsed(rawTxs),
           settings |-> imported.settings,
           categories |-> imported.categories,
           transactions |-> SortTx(imported.transactions),
           recurring |-> imported.recurring]

\* A check that lets a payload without schema_version through.
schemaMismatchLoose(payload) ==
  \/ ~Truthy(payload)
  \/ /\ Field(payload, "schema_version") # Undef
     /\ Field(payload, "schema_version") # Num(STORAGE_VERSION)

\* !payload || payload.schema_version !== STORAGE_VERSION
schemaMismatch(payload) ==
  ~Truthy(payload) \/ Field(payload, "schema_version") # Num(STORAGE_VERSION)

\* Store.importData(payload, { strategy }): throws SCHEMA_MISMATCH before
\* anything is assigned, else assigns, persists and notifies.
ImportData(payload, strategy) ==
  /\ ready
  /\ IF schemaMismatch(payload)
     THEN /\ lastOp' = [op |-> "importData", payload |-> payload,
                        strategy |-> strategy, error |-> "SCHEMA_MISMATCH"]
          /\ delivered' = NoDelivery
          /\ UNCHANGED <<settings, categories, transactions, recurring,
                         corruption, storage, corruptedKeys, listeners,
                         nextId, clock, ready, page>>
     ELSE \E r \in {importResult(payload, strategy, settings, categories,
                                 transactions, recurring, nextId, clock)} :
             /\ r.next - 1 <= MaxIds
             /\ Len(r.transactions) <= MaxTx
             /\ Len(r.categories) <= MaxCats
             /\ Len(r.recurring) <= MaxRec
             /\ Commit(r.settings, r.categories, r.transactions, r.recurring,
                       [type |-> "data:import", strategy |-> strategy],
                       [op |-> "importData", payload |-> payload,
                        strategy |-> strategy, error |-> "none"])
             /\ nextId' = r.next

\* ------------------------------------------------------------ queries
\* `${a}|${b}`
JoinBar(a, b) == Str(a.s \o <<BAR>> \o b.s)

\* Store.getRecentTransactions(limit, cursor)
getRecentTransactions(txs, limit, cursor) ==
  CHOOSE result \in
    {LET parts == IF Truthy(cursor) THEN SplitBar(cursor.s) ELSE <<<<>>>>
         cursorDate == Str(parts[1])
         cursorId == IF Len(parts) >= 2 THEN Str(parts[2]) ELSE Undef
         hits == {i \in 1..Len(sorted) :
                    sorted[i].date_iso = cursorDate /\ sorted[i].id = cursorId}
         startIndex ==
           IF ~Truthy(cursor) \/ hits = {} THEN 0
           ELSE CHOOSE i \in hits : \A j \in hits : i <= j
         end == IF startIndex + limit < Len(sorted) THEN startIndex + limit
                ELSE Len(sorted)
         slice == SubSeq(sorted, startIndex + 1, end)
         nextCursor ==
           IF Len(slice) = limit /\ slice # <<>>
           THEN JoinBar(slice[Len(slice)].date_iso, slice[Len(slice)].id)
           ELSE Null
     IN [items |-> slice, nextCursor |-> nextCursor,
         hasMore |-> Truthy(nextCursor)] :
     sorted \in {SortTx(txs)}} : TRUE

\* new Date(dateIso): the UTC year and month index, or invalid.
ValidDate(d) ==
  /\ IsStr(d) /\ Len(d.s) = 3
  /\ d.s[1] \in 1970..2100 /\ d.s[2] \in 1..12 /\ d.s[3] \in 1..31

\* isSameMonth(dateIso, year, monthIndex)
isSameMonth(d, year, monthIndex) ==
  ValidDate(d) /\ d.s[1] = year /\ d.s[2] - 1 = monthIndex

\* a + b on JavaScript numbers: NaN is contagious.
NumAdd(a, b) ==
  IF a.k = "num" /\ b.k = "num" THEN Num(a.n + b.n) ELSE NaN

\* a - b
NumSub(a, b) ==
  IF a.k = "num" /\ b.k = "num" THEN Num(a.n - b.n) ELSE NaN

\* JavaScript numbers are IEEE 754 doubles.  The naturals that 32 bits cannot
\* hold are written as their binary digits, lowest first, without leading
\* zeros; a positive double is m * 2^e for a natural m of at most
\* MantissaBits digits.
MantissaBits == 53

\* The number of binary places a quotient is developed to before rounding.
QuotientBits == 70

\* The binary digits a limb of a product holds.
LimbBits == 10

RECURSIVE BitsOf(_)
BitsOf(n) == IF n = 0 THEN <<>> ELSE <<n % 2>> \o BitsOf(n \div 2)

RECURSIVE NatOf(_)
NatOf(bits) == IF bits = <<>> THEN 0 ELSE Head(bits) + 2 * NatOf(Tail(bits))

RECURSIVE BitTrim(_)
BitTrim(bits) ==
  IF bits = <<>> \/ bits[Len(bits)] = 1 THEN bits
  ELSE BitTrim(SubSeq(bits, 1, Len(bits) - 1))

\* bits + 1
BitIncrement(bits) ==
  LET zeros == {i \in 1..Len(bits) : bits[i] = 0}
  IN IF zeros = {} THEN [i \in 1..Len(bits) |-> 0] \o <<1>>
     ELSE LET z == CHOOSE i \in zeros : \A j \in zeros : i <= j
          IN [i \in 1..Len(bits) |->
               IF i < z THEN 0 ELSE IF i = z THEN 1 ELSE bits[i]]

ShiftLeft(bits, k) ==
  IF bits = <<>> THEN <<>> ELSE [i \in 1..k |-> 0] \o bits

ShiftRight(bits, k) ==
  IF Len(bits) <= k THEN <<>> ELSE SubSeq(bits, k + 1, Len(bits))

RECURSIVE LimbTimes(_, _, _, _)
\* The limbs of n * limbs from limb k on, carry added.
LimbTimes(limbs, k, n, carry) ==
  IF k > Len(limbs)
  THEN (IF carry = 0 THEN <<>>
        ELSE <<carry % (2 ^ LimbBits)>> \o
             LimbTimes(limbs, k, n, carry \div (2 ^ LimbBits)))
  ELSE LET v == limbs[k] * n + carry
       IN <<v % (2 ^ LimbBits)>> \o
          LimbTimes(limbs, k + 1, n, v \div (2 ^ LimbBits))

\* n * bits for a natural n below 2^20.
BitTimes(n, bits) ==
  LET count == (Len(bits) + LimbBits - 1) \div LimbBits
      limbs == [k \in 1..count |->
                 NatOf(SubSeq(bits, LimbBits * (k - 1) + 1,
                              IF LimbBits * k < Len(bits)
                              THEN LimbBits * k ELSE Len(bits)))]
      product == LimbTimes(limbs, 1, n, 0)
  IN BitTrim([j \in 1..(LimbBits * Len(product)) |->
               (product[(j - 1) \div LimbBits + 1]
                  \div (2 ^ ((j - 1) % LimbBits))) % 2])

RECURSIVE PowMod(_, _)
\* 2^t modulo m
PowMod(t, m) ==
  IF t = 0 THEN 1 % m
  ELSE LET h == PowMod(t \div 2, m)
       IN (h * h * (IF t % 2 = 1 THEN 2 ELSE 1)) % m

\* The digits of the whole part of n * 2^QuotientBits / d, and whether a
\* remainder is left, for naturals n and 0 < d <= 200.
BitDivide(n, d) ==
  LET Digit(j) ==
        IF j - 1 <= QuotientBits
        THEN (((n % (2 * d)) * PowMod(QuotientBits - (j - 1), 2 * d))
                % (2 * d)) \div d
        ELSE ((n \div (2 ^ (j - 1 - QuotientBits))) \div d) % 2
  IN [q |-> BitTrim([j \in 1..(Len(BitsOf(n)) + QuotientBits) |-> Digit(j)]),
      r |-> ((n % d) * PowMod(QuotientBits, d)) % d]

\* The double nearest to a natural (plus, when more is set, a fraction
\* below one): round to nearest, ties to even.
RoundToDouble(bits, more) ==
  IF Len(bits) <= MantissaBits THEN [m |-> bits, e |-> 0]
  ELSE LET drop == Len(bits) - MantissaBits
           kept == ShiftRight(bits, drop)
           half == bits[drop] = 1
           below == more \/ \E i \in 1..(drop - 1) : bits[i] = 1
           up == half /\ (below \/ kept[1] = 1)
       IN [m |-> IF up THEN BitIncrement(kept) ELSE kept, e |-> drop]

\* n / d on doubles, for naturals n and 0 < d <= 200.
JsDivide(n, d) ==
  CHOOSE result \in
    {[m |-> x.m, e |-> x.e - QuotientBits] :
       x \in {RoundToDouble(qr.q, qr.r # 0) : qr \in {BitDivide(n, d)}}} :
    TRUE

\* n * x on doubles, for a natural n below 2^20 and a positive double x.
JsTimes(n, x) ==
  CHOOSE result \in
    {[m |-> y.m, e |-> y.e + x.e] :
       y \in {RoundToDouble(bits, FALSE) : bits \in {BitTimes(n, x.m)}}} :
    TRUE

\* Math.round(x) of the double x, or of -x when negative is set: the
\* nearest integer, halves towards plus infinity.
MathRound(x, negative) ==
  IF x.e >= 0 THEN
    (IF negative THEN -1 ELSE 1) * NatOf(ShiftLeft(x.m, x.e))
  ELSE LET k == -x.e
           whole == NatOf(ShiftRight(x.m, k))
           half == k <= Len(x.m) /\ x.m[k] = 1
           below == \E i \in 1..(k - 1) : i <= Len(x.m) /\ x.m[i] = 1
       IN IF negative
          THEN -(whole + IF half /\ below THEN 1 ELSE 0)
          ELSE whole + IF half THEN 1 ELSE 0

\* Math.round(income * pct): the share without the division by 100.
BudgetUnscaled(income, pct) ==
  IF income.k = "num" /\ pct.k = "num" THEN Num(income.n * pct.n) ELSE NaN

\* Math.round(income * (pct / 100))
Budget(income, pct) ==
  LET p == ToNumber(pct)
  IN IF income.k = "num" /\ p.k \in {"num", "frac"}
     THEN LET n == IF p.k = "num" THEN p.n ELSE 2 * p.n + 1
              d == IF p.k = "num" THEN 100 ELSE 200
              abs == IF n < 0 THEN -n ELSE n
              mag == IF income.n < 0 THEN -income.n ELSE income.n
          IN CHOOSE result \in
               {Num(MathRound(x, (n < 0) # (income.n < 0))) :
                  x \in {JsTimes(mag, q) : q \in {JsDivide(abs, d)}}} : TRUE
     ELSE IF income.k = "num" /\ p.k = "inf" /\ income.n # 0 THEN Inf
     ELSE NaN

\* bucket.budget_cents ? bucket.budget_cents - bucket.spent_cents
\*                      : -bucket.spent_cents
Remaining(budget, spent) ==
  IF Truthy(budget) THEN NumSub(budget, spent) ELSE NumSub(Num(0), spent)

\* BUCKETS.includes(tx.bucket) ? tx.bucket : "Necessities": no fourth bucket.
bucketKeyOfThree(tx) ==
  IF tx.bucket = Str(LEISURE) THEN "Leisure"
  ELSE IF tx.bucket = Str(SAVINGS) THEN "Savings"
  ELSE "Necessities"

\* tx.bucket && BUCKETS.includes(tx.bucket) ? tx.bucket : "Uncategorized"
bucketKey(tx) ==
  IF tx.bucket = Str(NECESSITIES) THEN "Necessities"
  ELSE IF tx.bucket = Str(LEISURE) THEN "Leisure"
  ELSE IF tx.bucket = Str(SAVINGS) THEN "Savings"
  ELSE "Uncategorized"

RECURSIVE sumLoop(_, _, _, _)
\* The for-loop of getMonthlyTotals from position i on.
sumLoop(txs, i, month, acc) ==
  IF i > Len(txs) THEN acc
  ELSE LET tx == txs[i]
       IN IF ~isSameMonth(tx.date_iso, month[1], month[2])
          THEN sumLoop(txs, i + 1, month, acc)
          ELSE IF tx.type = Str(INCOME)
          THEN sumLoop(txs, i + 1, month,
                 [acc EXCEPT !.income_cents = NumAdd(@, tx.amount_cents)])
          ELSE sumLoop(txs, i + 1, month,
                 [acc EXCEPT
                    !.expense_cents = NumAdd(@, tx.amount_cents),
                    !.spent[bucketKey(tx)] = NumAdd(@, tx.amount_cents)])

\* Store.getMonthlyTotals(year, monthIndex); month is <<year, monthIndex>>.
getMonthlyTotals(txs, s, month) ==
  LET zero == [income_cents |-> Num(0), expense_cents |-> Num(0),
               spent |-> [Necessities |-> Num(0), Leisure |-> Num(0),
                          Savings |-> Num(0), Uncategorized |-> Num(0)]]
      Budgets(sums) ==
        [Necessities |-> Budget(sums.income_cents, Field(s.rule, "necessities")),
         Leisure |-> Budget(sums.income_cents, Field(s.rule, "leisure")),
         Savings |-> Budget(sums.income_cents, Field(s.rule, "savings")),
         Uncategorized |-> Num(0)]
      Totals(sums, budget) ==
        [income_cents |-> sums.income_cents,
         expense_cents |-> sums.expense_cents,
         buckets |->
           [b \in {"Necessities", "Leisure", "Savings", "Uncategorized"} |->
              [spent_cents |-> sums.spent[b],
               budget_cents |-> budget[b],
               remaining_cents |-> Remaining(budget[b], sums.spent[b])]]]
  IN CHOOSE result \in
       UNION {{Totals(sums, budget) : budget \in {Budgets(sums)}} :
                sums \in {sumLoop(txs, 1, month, zero)}} : TRUE

\* A caller starts paging: getRecentTransactions(limit, null).
PageStart(limit) ==
  /\ ready
  /\ \E r \in {getRecentTransactions(transactions, limit, Null)} :
        /\ page' = [phase |-> IF r.hasMore THEN "open" ELSE "done",
                    limit |-> limit, cursor |-> r.nextCursor,
                    items |-> r.items, calls |-> 1]
        /\ lastOp' = [op |-> "getRecentTransactions", limit |-> limit,
                      cursor |-> Null, result |-> r]
  /\ delivered' = NoDelivery
  /\ UNCHANGED <<settings, categories, transactions, recurring, corruption,
                 storage, corruptedKeys, listeners, nextId, clock, ready>>

\* The caller asks for the next page with the cursor it was given.
PageNext ==
  /\ page.phase = "open"
  /\ page.calls < MaxCalls
  /\ \E r \in {getRecentTransactions(transactions, page.limit,
                                      page.cursor)} :
        /\ page' = [phase |-> IF r.hasMore THEN "open" ELSE "done",
                    limit |-> page.limit, cursor |-> r.nextCursor,
                    items |-> page.items \o r.items,
                    calls |-> page.calls + 1]
        /\ lastOp' = [op |-> "getRecentTransactions", limit |-> page.limit,
                      cursor |-> page.cursor, result |-> r]
  /\ delivered' = NoDelivery
  /\ UNCHANGED <<settings, categories, transactions, recurring, corruption,
                 storage, corruptedKeys, listeners, nextId, clock, ready>>

\* The caller drops its pages.
PageClose ==
  /\ page.phase # "idle"
  /\ page' = [phase |-> "idle"]
  /\ lastOp' = [op |-> "pageClose"]
  /\ delivered' = NoDelivery
  /\ UNCHANGED <<settings, categories, transactions, recurring, corruption,
                 storage, corruptedKeys, listeners, nextId, clock, ready>>

\* A caller asks Store.getMonthlyTotals(year, monthIndex).
QueryMonthlyTotals(month) ==
  /\ ready
  /\ lastOp' = [op |-> "getMonthlyTotals", month |-> month,
                result |-> getMonthlyTotals(transactions, settings, month)]
  /\ delivered' = NoDelivery
  /\ UNCHANGED <<settings, categories, transactions, recurring, corruption,
                 storage, corruptedKeys, listeners, nextId, clock, ready,
                 page>>

\* Time passes.
Tick ==
  /\ clock < MaxClock
  /\ clock' = clock + 1
  /\ delivered' = NoDelivery
  /\ lastOp' = [op |-> "tick"]
  /\ UNCHANGED <<settings, categories, transactions, recurring, corruption,
                 storage, corruptedKeys, listeners, nextId, ready, page>>

\* ------------------------------------------------------------ inputs
RawTx(id, type, amount, cat, bucket, date) ==
  Obj([id |-> id, type |-> type, amount_cents |-> amount,
       description |-> Undef, category_id |-> cat, bucket |-> bucket,
       date_iso |-> date])

Jan15 == Str(<<2024, 1, 15>>)
Feb01 == Str(<<2024, 2, 1>>)
IdA == Str(<<1>>)
IdB == Str(<<2>>)
IdC == Str(<<3>>)
IdBar == Str(<<1, BAR, 2>>)

StoredTxOld == RawTx(IdA, Str(EXPENSE), Num(5), Null, Str(LEISURE), Jan15)
StoredTxNew == RawTx(IdB, Str(INCOME), Num(100), Null, Null, Feb01)
StoredTxZero == RawTx(Undef, Str(EXPENSE), Num(0), Null, Null, Jan15)

\* What localStorage may hold when the page is opened.
InitialStorages ==
  { FreshStorage,
    [FreshStorage EXCEPT !.settings = Corrupt],
    [FreshStorage EXCEPT
       !.settings = Corrupt,
       !.transactions =
          Arr(<<StoredTxOld, Null, StoredTxZero, StoredTxNew>>)] }

Draft(type, amount, cat, bucket, date) ==
  Obj([type |-> type, amount_cents |-> amount, category_id |-> cat,
       bucket |-> bucket, date_iso |-> date])

DraftIncome == Draft(Str(INCOME), Num(100), Undef, Undef, Undef)
DraftFun == Draft(Str(EXPENSE), Num(40), Str(GenId(3)), Undef, Jan15)
DraftZero == Draft(Str(EXPENSE), Num(0), Undef, Undef, Jan15)
DraftNoAmount == Draft(Str(EXPENSE), Undef, Undef, Undef, Undef)
DraftHalf == Draft(Str(EXPENSE), Frac(7), Undef, Str(SAVINGS), Feb01)

UpdateZero == Obj([amount_cents |-> Num(0)])
UpdateDate == Obj([date_iso |-> Feb01, amount_cents |-> Num(9)])
UpdateIncome == Obj([type |-> Str(INCOME)])
UpdateId == Obj([id |-> Str(<<>>)])

\* The ids a caller may name: those in use and one that may be in none.
IdsOf(list) == {list[i].id : i \in 1..Len(list)}
TxIds == IdsOf(transactions) \cup {IdC}

ImportedSettings ==
  Obj([currency |-> Str(EN_US), firstDayOfWeek |-> Num(0),
       rule |-> Obj([necessities |-> Num(60), leisure |-> Num(25),
                     savings |-> Num(15)])])

Payload(version, s, cats, recs, txs) ==
  Obj([schema_version |-> version, settings |-> s, categories |-> cats,
       transactions |-> txs, recurring |-> recs])

RawCat(id, name, bucket) ==
  Obj([id |-> id, name |-> name, bucket |-> bucket, archived |-> Undef])

RawRec(id, amount) ==
  Obj([id |-> id, description |-> Undef, default_amount_cents |-> amount,
       category_id |-> Undef])

PayloadFull ==
  Payload(Num(STORAGE_VERSION), ImportedSettings,
          Arr(<<RawCat(Str(GenId(3)), Str(HOUSING), Str(SAVINGS)),
                RawCat(IdA, Undef, Undef)>>),
          Arr(<<RawRec(IdA, Num(0))>>),
          Arr(<<StoredTxOld, StoredTxNew>>))

PayloadTwice ==
  Payload(Num(STORAGE_VERSION), Undef, Undef, Undef,
          Arr(<<RawTx(IdB, Str(EXPENSE), Num(7), Null, Null, Jan15),
                RawTx(IdB, Str(EXPENSE), Num(3), Null, Null, Jan15),
                StoredTxZero>>))

PayloadBar ==
  Payload(Num(STORAGE_VERSION), Undef, Undef, Undef,
          Arr(<<RawTx(IdA, Str(EXPENSE), Num(7), Null, Null, Jan15),
                RawTx(IdBar, Str(EXPENSE), Num(3), Null, Null, Jan15)>>))

PayloadSmall ==
  Payload(Num(STORAGE_VERSION), ImportedSettings, Undef, Undef,
          Arr(<<StoredTxNew>>))

BadPayloads ==
  { Null,
    Payload(Undef, ImportedSettings, Undef, Undef, Arr(<<StoredTxOld>>)),
    Payload(Num(2), ImportedSettings, Undef, Undef, Arr(<<StoredTxOld>>)) }

Strategies == {"replace", "merge"}

\* ------------------------------------------------------------ ledger
\* The page has loaded the script: the Store holds its initial state.
Init ==
  /\ settings = DEFAULT_SETTINGS
  /\ categories = <<>>
  /\ transactions = <<>>
  /\ recurring = <<>>
  /\ corruption = [hasCorruption |-> FALSE, keys |-> {}]
  /\ storage \in InitialStorages
  /\ corruptedKeys = {}
  /\ listeners = <<>>
  /\ delivered = NoDelivery
  /\ lastOp = [op |-> "load"]
  /\ nextId = FirstFreeId
  /\ clock = 1
  /\ ready = FALSE
  /\ page = [phase |-> "idle"]

\* importData(exportData(), { strategy: "replace" })
ImportExport ==
  ImportData(exportData(settings, categories, transactions, recurring),
             "replace")

\* The ledger: transactions are loaded, added, updated, deleted, imported.
NextLedger ==
  \/ InitStore
  \/ \E draft \in {DraftIncome, DraftFun, DraftZero, DraftNoAmount} :
       AddTransaction(draft)
  \/ \E id \in TxIds, updates \in {UpdateZero, UpdateDate} :
       UpdateTransaction(id, updates)
  \/ \E id \in TxIds : DeleteTransaction(id)
  \/ \E strategy \in Strategies : ImportData(PayloadFull, strategy)
  \/ Reset

Spec == Init /\ [][NextLedger]_vars

\* amount_cents > 0
IsPositive(amount) == amount.k = "num" /\ amount.n > 0

\* C1: once the Store is loaded, every transaction of the collection has
\* amount_cents > 0, and so has every transaction that addTransaction or
\* updateTransaction wrote to the persisted transactions key.
C1_AmountsPositive ==
  ready =>
    /\ \A i \in 1..Len(transactions) :
         IsPositive(transactions[i].amount_cents)
    /\ lastOp.op \in {"addTransaction", "updateTransaction"} =>
         \A i \in 1..Len(storage.transactions.items) :
           IsPositive(Field(storage.transactions.items[i], "amount_cents"))

\* C2: once the Store is loaded, every adjacent pair (a, b) of the
\* collection has a.date_iso > b.date_iso, or equal dates and a.id > b.id.
C2_SortedStrictly ==
  ready =>
    \A i \in 1..(Len(transactions) - 1) :
      \/ StrLess(transactions[i + 1].date_iso.s, transactions[i].date_iso.s)
      \/ /\ transactions[i].date_iso = transactions[i + 1].date_iso
         /\ StrLess(transactions[i + 1].id.s, transactions[i].id.s)

\* Import and export.
NextImport ==
  \/ InitStore
  \/ \E draft \in {DraftIncome, DraftZero} : AddTransaction(draft)
  \/ \E id \in TxIds : UpdateTransaction(id, UpdateId)
  \/ \E payload \in {PayloadFull, PayloadTwice} \cup BadPayloads,
        strategy \in Strategies :
       ImportData(payload, strategy)
  \/ ImportExport

SpecImport == Init /\ [][NextImport]_vars

\* The step is a successful importData with strategy "merge".
MergeStep ==
  /\ lastOp'.op = "importData"
  /\ lastOp'.strategy = "merge"
  /\ lastOp'.error = "none"

\* The first record of the list that carries the id is at position i.
FirstOfId(list, i) == \A j \in 1..(i - 1) : list[j].id # list[i].id

\* The list holds record once and no other record of its id.
HoldsOnly(list, record) ==
  Cardinality({j \in 1..Len(list) : list[j].id = record.id}) = 1
  /\ \E j \in 1..Len(list) : list[j] = record

\* The ids of the records the payload's array gives after normalization:
\* the ids it carries on records with a positive amount (ids) or on any
\* record (all), and the ids generated for records without one.
ImportedIds(raw, all) ==
  IF ~IsArray(raw) THEN {}
  ELSE {Field(raw.items[i], "id") :
          i \in {j \in 1..Len(raw.items) :
                   /\ IsObject(raw.items[j])
                   /\ Truthy(Field(raw.items[j], "id"))
                   /\ all \/ IsPositive(MathTrunc(Field(raw.items[j],
                                                        "amount_cents")))}}

GeneratedIds(from) == {Str(GenId(n)) : n \in from..(MaxIds + 1)}

\* C4: a merge import keeps every current transaction and recurring template
\* (the first record of each id, with all its field values), adds exactly
\* the imported ids that no current record carries, and leaves the
\* transactions sorted.
C4_MergeCurrentWins ==
  [][MergeStep =>
       /\ \A i \in 1..Len(transactions) :
            FirstOfId(transactions, i) =>
              HoldsOnly(transactions', transactions[i])
       /\ \A i \in 1..Len(recurring) :
            FirstOfId(recurring, i) => HoldsOnly(recurring', recurring[i])
       /\ LET payloadTx == Field(lastOp'.payload, "transactions")
              payloadRec == Field(lastOp'.payload, "recurring")
          IN /\ IdsOf(transactions) \cup ImportedIds(payloadTx, FALSE)
                  \subseteq IdsOf(transactions')
             /\ IdsOf(transactions') \subseteq
                  IdsOf(transactions) \cup ImportedIds(payloadTx, FALSE)
                    \cup GeneratedIds(nextId)
             /\ IdsOf(recurring) \cup ImportedIds(payloadRec, TRUE)
                  \subseteq IdsOf(recurring')
             /\ IdsOf(recurring') \subseteq
                  IdsOf(recurring) \cup ImportedIds(payloadRec, TRUE)
                    \cup GeneratedIds(nextId)
       /\ \A i \in 1..(Len(transactions') - 1) :
            compareTransactionsDesc(transactions'[i], transactions'[i + 1]) < 0
  ]_vars

\* The step is importData(exportData(), { strategy: "replace" }).
RoundTripStep ==
  /\ lastOp'.op = "importData"
  /\ lastOp'.strategy = "replace"
  /\ lastOp'.error = "none"
  /\ lastOp'.payload =
       exportData(settings, categories, transactions, recurring)

\* C5: importing the export with strategy "replace" leaves settings,
\* categories, recurring templates and transactions as they were, the
\* transactions in the same order.
C5_RoundTrip ==
  [][RoundTripStep =>
       UNCHANGED <<settings, categories, recurring, transactions>>]_vars

\* ------------------------------------------------------------ notification

UpdateRecurringAmount == Obj([default_amount_cents |-> Frac(-3)])
UpdateRule == Obj([rule |-> Obj([necessities |-> Num(70)])])

\* Every operation of the Store that notifies, with listeners coming and
\* going.
NextNotify ==
  \/ InitStore
  \/ \E l \in 1..MaxListeners : Subscribe(l)
  \/ \E l \in 1..MaxListeners : Unsubscribe(l)
  \/ AddTransaction(DraftFun)
  \/ \E id \in IdsOf(transactions) : UpdateTransaction(id, UpdateDate)
  \/ \E id \in IdsOf(transactions) : DeleteTransaction(id)
  \/ AddCategory(Str(<<SPACE>>), Str(LEISURE))
  \/ ArchiveCategory(Str(GenId(3)), Bool(TRUE))
  \/ AddRecurring(Str(<<SPACE, FUN[1]>>), Frac(12), Undef)
  \/ \E id \in IdsOf(recurring) : UpdateRecurring(id, UpdateRecurringAmount)
  \/ \E id \in IdsOf(recurring) : DeleteRecurring(id)
  \/ SaveSettings(UpdateRule)
  \/ ImportData(PayloadSmall, "replace")
  \/ Reset

\* The notification runs start from a browser whose stored settings are
\* unreadable, so that the state handed to listeners carries a corruption
\* report.
InitNotify ==
  /\ Init
  /\ storage = [FreshStorage EXCEPT !.settings = Corrupt]

SpecNotify == InitNotify /\ [][NextNotify]_vars

\* Imports, refused and accepted, with listeners subscribed.
NextRefuse ==
  \/ InitStore
  \/ \E l \in 1..MaxListeners : Subscribe(l)
  \/ AddTransaction(DraftFun)
  \/ SaveSettings(UpdateRule)
  \/ \E payload \in {PayloadSmall} \cup BadPayloads,
        strategy \in Strategies :
       ImportData(payload, strategy)

SpecRefuse == Init /\ [][NextRefuse]_vars

\* The payloads importData has to refuse.
Refused(payload) ==
  \/ payload \in {Null, Undef}
  \/ Field(payload, "schema_version") = Undef
  \/ Field(payload, "schema_version") # Num(STORAGE_VERSION)

\* C6: an importData call whose payload is absent, or whose schema_version is
\* absent or not the current version, ends in SCHEMA_MISMATCH under either
\* strategy, leaves settings, the three collections and the persisted keys
\* as they were, and calls no listener.
C6_SchemaMismatch ==
  [][(lastOp'.op = "importData" /\ Refused(lastOp'.payload)) =>
       /\ lastOp'.error = "SCHEMA_MISMATCH"
       /\ UNCHANGED <<settings, categories, transactions, recurring, storage>>
       /\ delivered'.to = <<>>]_vars

C6_Witness ==
  /\ lastOp.op = "importData"
  /\ lastOp.error = "SCHEMA_MISMATCH"
  /\ lastOp.strategy = "merge"
  /\ Field(lastOp.payload, "schema_version") = Undef
  /\ Len(listeners) = MaxListeners
  /\ transactions # <<>>

\* The operations that change the Store's data and have succeeded.
Mutated ==
  \/ lastOp.op \in {"addTransaction", "updateTransaction",
                    "deleteTransaction", "addCategory", "updateCategory",
                    "addRecurring", "updateRecurring", "deleteRecurring",
                    "saveSettings", "reset"}
  \/ lastOp.op = "importData" /\ lastOp.error = "none"

\* The four persisted values are the JSON text of the given settings and
\* collections.
PersistedIs(store, s, cats, txs, recs) ==
  /\ store.settings = JsonSettings(s)
  /\ store.categories = JsonList(cats)
  /\ store.transactions = JsonList(txs)
  /\ store.recurring = JsonList(recs)

\* C7: when a mutating operation (add/update/delete of a transaction,
\* category or recurring template, saveSettings, a successful importData,
\* reset) has returned, the four persisted keys hold the in-memory settings
\* and collections, and they already held them when the listeners of that
\* operation were called.
C7_PersistedBeforeNotify ==
  Mutated =>
    /\ PersistedIs(storage, settings, categories, transactions, recurring)
    /\ delivered.to # <<>> =>
         PersistedIs(delivered.persisted, delivered.state.settings,
                     delivered.state.categories,
                     delivered.state.transactions, delivered.state.recurring)

C7_Witness ==
  /\ lastOp.op = "updateTransaction"
  /\ Len(transactions) = MaxTx
  /\ Len(delivered.to) = MaxListeners
  /\ settings.rule # DEFAULT_SETTINGS.rule

\* The change descriptor type of each notifying operation.
OpType ==
  [init |-> "init", addTransaction |-> "transactions:add",
   updateTransaction |-> "transactions:update",
   deleteTransaction |-> "transactions:delete",
   addCategory |-> "categories:add", updateCategory |-> "categories:update",
   addRecurring |-> "recurring:add", updateRecurring |-> "recurring:update",
   deleteRecurring |-> "recurring:delete", saveSettings |-> "settings:update",
   importData |-> "data:import", reset |-> "app:reset"]

\* The number of times listener l was called by the last operation.
Calls(l) ==
  Cardinality({i \in 1..Len(delivered.to) : delivered.to[i] = l})

\* The listeners passed to subscribe whose unsubscribe function has not been
\* called since.
Registered(ls, l) == \E i \in 1..Len(ls) : ls[i] = l

\* C8: init and every mutation call each registered listener exactly once,
\* with the state as the mutation left it and a descriptor whose type names
\* the operation; a listener whose unsubscribe function has been called is
\* not called; subscribe registers the listener and the function it returns
\* removes it.
C8_ListenersCalledOnce ==
  /\ [](Mutated \/ lastOp.op = "init" =>
         /\ \A l \in 1..MaxListeners :
              Calls(l) = IF Registered(listeners, l) THEN 1 ELSE 0
         /\ delivered.to # <<>> =>
              /\ delivered.state.settings = settings
              /\ delivered.state.categories = categories
              /\ delivered.state.transactions = transactions
              /\ delivered.state.recurring = recurring
              /\ delivered.detail.type = OpType[lastOp.op])
  /\ [][/\ lastOp'.op = "subscribe" =>
             Registered(listeners', lastOp'.listener)
        /\ lastOp'.op = "unsubscribe" =>
             ~Registered(listeners', lastOp'.listener)
        /\ lastOp'.op \notin {"subscribe", "unsubscribe"} =>
             UNCHANGED listeners]_vars

C8_Witness ==
  /\ lastOp.op = "deleteRecurring"
  /\ Len(delivered.to) = 1
  /\ delivered.detail.type = "recurring:delete"
  /\ \E l \in 1..MaxListeners : ~Registered(listeners, l) /\ Calls(l) = 0
  /\ transactions # <<>>

\* ------------------------------------------------------------ normalizing
\* Raw values a normalizer may be handed: from storage or from an import.
RawSettings ==
  { Null, Undef, Str(USD), ImportedSettings,
    Obj([currency |-> Num(5), firstDayOfWeek |-> Frac(0),
         rule |-> Obj([leisure |-> Str(<<>>), savings |-> NaN]),
         showAdvancedCharts |-> Str(USD), schema_version |-> Num(7)]),
    Obj([locale |-> Null, firstDayOfWeek |-> Num(0), rule |-> Str(FUN),
         hapticFeedback |-> Num(1)]) }

RawCategoryLists ==
  { Null, Obj([id |-> IdA]), Arr(<<>>),
    Arr(<<Null, Num(3), RawCat(Undef, Num(1), Str(FUN)),
          RawCat(IdA, Str(<<SPACE>>), Str(SAVINGS))>>),
    Arr(<<Obj([id |-> Num(7), name |-> Str(<<>>), bucket |-> Str(LEISURE),
               archived |-> Str(FUN)]),
          RawCat(Str(<<>>), Str(FUN), Null), Arr(<<>>)>>) }

RawTransactionLists ==
  { Undef, Str(FUN), Arr(<<>>),
    Arr(<<RawTx(Undef, Str(INCOME), Frac(7), Num(3), Str(FUN), Undef),
          Str(FUN),
          RawTx(IdA, Null, Num(-4), Null, Str(LEISURE), Jan15),
          RawTx(IdB, Str(EXPENSE), Num(6), Str(<<>>), Null, Num(2024))>>),
    Arr(<<RawTx(IdA, Str(EXPENSE), Frac(0), Null, Null, Jan15),
          RawTx(IdA, Str(EXPENSE), Frac(1), IdC, Str(SAVINGS), Feb01),
          RawTx(Num(0), Str(FUN), NaN, Null, Null, Feb01),
          RawTx(IdB, Str(INCOME), Inf, Null, Null, Feb01),
          RawTx(Null, Str(INCOME), Num(1), Null, Null, Str(<<>>))>>) }

RawRecurringLists ==
  { Null, Num(1), Arr(<<>>),
    Arr(<<RawRec(Undef, Frac(-3)), Null, RawRec(IdA, Str(FUN))>>),
    Arr(<<Obj([id |-> IdB, description |-> Str(FUN),
               default_amount_cents |-> Frac(12), category_id |-> Num(0)]),
          Obj([id |-> Bool(TRUE), description |-> Num(1),
               default_amount_cents |-> Inf, category_id |-> IdA])>>) }

\* normalize<kind>(raw): the normalizer is applied to a raw value and its
\* output kept.
NormalizeOnce(kind, raw) ==
  LET used == IF kind = "settings" THEN 0 ELSE IdsUsed(raw)
  IN /\ nextId + used - 1 <= MaxIds
     /\ settings' =
          IF kind = "settings" THEN normalizeSettings(raw) ELSE settings
     /\ categories' =
          IF kind = "categories" THEN normalizeCategories(raw, nextId)
          ELSE categories
     /\ transactions' =
          IF kind = "transactions"
          THEN normalizeTransactions(raw, nextId, clock) ELSE transactions
     /\ recurring' =
          IF kind = "recurring" THEN normalizeRecurring(raw, nextId)
          ELSE recurring
     /\ nextId' = nextId + used
     /\ delivered' = NoDelivery
     /\ lastOp' = [op |-> "normalize", kind |-> kind, raw |-> raw]
     /\ UNCHANGED <<corruption, storage, corruptedKeys, listeners, clock,
                    ready, page>>

\* normalize<kind>(normalize<kind>(raw)): the normalizer is applied to the
\* output it has just produced, at the same or a later time.
NormalizeAgain(kind, c) ==
  LET raw == CASE kind = "settings" -> Obj(settings)
               [] kind = "categories" -> AsArray(categories)
               [] kind = "transactions" -> AsArray(transactions)
               [] kind = "recurring" -> AsArray(recurring)
      used == IF kind = "settings" THEN 0 ELSE IdsUsed(raw)
  IN /\ lastOp.op \in {"normalize", "normalizeAgain"}
     /\ lastOp.kind = kind
     /\ nextId + used - 1 <= MaxIds
     /\ settings' =
          IF kind = "settings" THEN normalizeSettings(raw) ELSE settings
     /\ categories' =
          IF kind = "categories" THEN normalizeCategories(raw, nextId)
          ELSE categories
     /\ transactions' =
          IF kind = "transactions"
          THEN normalizeTransactions(raw, nextId, c) ELSE transactions
     /\ recurring' =
          IF kind = "recurring" THEN normalizeRecurring(raw, nextId)
          ELSE recurring
     /\ nextId' = nextId + used
     /\ clock' = c
     /\ delivered' = NoDelivery
     /\ lastOp' = [op |-> "normalizeAgain", kind |-> kind, raw |-> raw]
     /\ UNCHANGED <<corruption, storage, corruptedKeys, listeners, ready,
                    page>>

NextNormalize ==
  \/ \E raw \in RawSettings : NormalizeOnce("settings", raw)
  \/ \E raw \in RawCategoryLists : NormalizeOnce("categories", raw)
  \/ \E raw \in RawTransactionLists : NormalizeOnce("transactions", raw)
  \/ \E raw \in RawRecurringLists : NormalizeOnce("recurring", raw)
  \/ \E kind \in STORAGE_KEYS, c \in clock..MaxClock : NormalizeAgain(kind, c)

SpecNormalize == Init /\ [][NextNormalize]_vars

\* C9: each of the four normalizers, applied to the output it produced for
\* any raw input, returns that output again: the same records in the same
\* order with the same field values, none dropped, no id and no date
\* generated anew.
C9_NormalizeIdempotent ==
  [][lastOp'.op = "normalizeAgain" =>
       UNCHANGED <<settings, categories, transactions, recurring, nextId>>]_vars

C9_Witness ==
  /\ lastOp.op = "normalizeAgain"
  /\ lastOp.kind = "transactions"
  /\ clock = MaxClock
  /\ \E i \in 1..Len(transactions) :
       /\ \E n \in FirstFreeId..MaxIds : transactions[i].id = Str(GenId(n))
       /\ transactions[i].date_iso = Str(NowIso(1))
       /\ transactions[i].amount_cents = Num(7)
  /\ categories # <<>>
  /\ settings.currency = Num(5)

\* ------------------------------------------------------------ monthly totals
DraftSalary == Draft(Str(INCOME), Num(200000), Undef, Undef, Jan15)
DraftTips == Draft(Str(INCOME), Num(90), Undef, Undef, Jan15)
DraftRent == Draft(Str(EXPENSE), Num(50000), Str(GenId(1)), Undef, Jan15)
DraftCash == Draft(Str(EXPENSE), Num(1000), Undef, Undef, Feb01)

Rule35 ==
  Obj([rule |-> Obj([necessities |-> Num(35), leisure |-> Num(45),
                     savings |-> Num(20)])])

Months == {<<2024, 0>>, <<2024, 1>>}

\* Valid entries only: positive whole amounts, whole percentages.
NextTotals ==
  \/ InitStore
  \/ \E draft \in {DraftSalary, DraftTips, DraftRent, DraftFun, DraftHalf,
                    DraftCash} :
       AddTransaction(draft)
  \/ \E id \in IdsOf(transactions) : DeleteTransaction(id)
  \/ \E updates \in {UpdateRule, Rule35} : SaveSettings(updates)
  \/ \E month \in Months : QueryMonthlyTotals(month)

SpecTotals == Init /\ [][NextTotals]_vars

\* The positions of the transactions dated in the month <<year, monthIndex>>.
InMonth(month) ==
  {i \in 1..Len(transactions) :
     /\ transactions[i].date_iso.s[1] = month[1]
     /\ transactions[i].date_iso.s[2] = month[2] + 1}

RECURSIVE SumAmounts(_)
\* The sum of the amounts at the given positions.
SumAmounts(positions) ==
  IF positions = {} THEN 0
  ELSE LET i == CHOOSE j \in positions : TRUE
       IN transactions[i].amount_cents.n + SumAmounts(positions \ {i})

\* round(income * percentage / 100), halves up.
RoundedShare(income, percentage) == (income * percentage + 50) \div 100

\* The figures the claim gives for one rule bucket.
BucketFigures(result, bucket, key, percentage) ==
  LET month == InMonth(lastOp.month)
      income ==
        SumAmounts({i \in month : transactions[i].type = Str(INCOME)})
      spent ==
        SumAmounts({i \in month : /\ transactions[i].type = Str(EXPENSE)
                                  /\ transactions[i].bucket = bucket})
      budget == RoundedShare(income, percentage.n)
  IN /\ result.income_cents = Num(income)
     /\ result.buckets[key].spent_cents = Num(spent)
     /\ result.buckets[key].budget_cents = Num(budget)
     /\ result.buckets[key].remaining_cents = Num(budget - spent)

\* C10: getMonthlyTotals(year, month) returns the sum of the month's income
\* amounts as income_cents and, for each of Necessities, Leisure and Savings,
\* the sum of the month's expenses of that bucket as spent_cents,
\* round(income_cents * rule percentage / 100) as budget_cents and
\* budget_cents - spent_cents as remaining_cents.
C10_MonthlyTotals ==
  lastOp.op = "getMonthlyTotals" =>
    /\ BucketFigures(lastOp.result, Str(NECESSITIES), "Necessities",
                     settings.rule.f.necessities)
    /\ BucketFigures(lastOp.result, Str(LEISURE), "Leisure",
                     settings.rule.f.leisure)
    /\ BucketFigures(lastOp.result, Str(SAVINGS), "Savings",
                     settings.rule.f.savings)

\* Paging: the Store changes only while no caller is paging.
NextPaging ==
  \/ /\ page.phase = "idle"
     /\ \/ InitStore
        \/ \E draft \in {DraftIncome, DraftFun} : AddTransaction(draft)
        \/ \E id \in TxIds : DeleteTransaction(id)
        \/ \E payload \in {PayloadFull, PayloadBar} :
             ImportData(payload, "replace")
  \/ \E limit \in 1..MaxLimit : PageStart(limit)
  \/ PageNext
  \/ PageClose

SpecPaging == Init /\ [][NextPaging]_vars

\* C3: the pages a caller has collected from cursor = null on are the
\* beginning of the descending-sorted transaction list, the caller needs no
\* more calls than the list has pages, and when hasMore = false is returned
\* the pages together are the whole list.
C3_PagesAreTheList ==
  page.phase # "idle" =>
    LET sorted == SortTx(transactions)
    IN /\ Len(page.items) <= Len(sorted)
       /\ page.items = SubSeq(sorted, 1, Len(page.items))
       /\ page.calls <= (Len(sorted) \div page.limit) + 1
       /\ page.phase = "done" => page.items = sorted

\* ------------------------------------------------------------ budget shares
Incomes == {1, 50, 90, 100000}
Percents == {0, 1, 20, 29, 30, 35, 45, 50, 70, 100}

IncomeDraft(amount) == Draft(Str(INCOME), Num(amount), Undef, Undef, Jan15)

\* The rules of whole percentages that add up to 100.
Rules ==
  {Obj([rule |-> Obj([necessities |-> Num(n), leisure |-> Num(l),
                      savings |-> Num(100 - n - l)])]) :
     <<n, l>> \in {pair \in Percents \X Percents :
                     100 - pair[1] - pair[2] \in Percents}}

NextShares ==
  \/ InitStore
  \/ \E amount \in Incomes : AddTransaction(IncomeDraft(amount))
  \/ \E updates \in Rules : SaveSettings(updates)
  \/ QueryMonthlyTotals(<<2024, 0>>)

SpecShares == Init /\ [][NextShares]_vars

\* |budget - income * percentage / 100| <= 1, in hundredths.
NearShare(budget, income, percentage) ==
  /\ budget.k = "num"
  /\ 100 * budget.n - income * percentage <= 100
  /\ income * percentage - 100 * budget.n <= 100

\* The rule is one of whole, non-negative percentages that add up to 100.
WholeRule(rule) ==
  /\ \A name \in {"necessities", "leisure", "savings"} :
       rule[name].k = "num" /\ rule[name].n >= 0
  /\ rule.necessities.n + rule.leisure.n + rule.savings.n = 100

\* C11: for a non-negative whole income I and a rule of non-negative whole
\* percentages that add up to 100, each of the three budget_cents values of
\* getMonthlyTotals is within 1 cent of I * p / 100, the three budgets add up
\* to I within 1 cent per bucket, and income 100000 under the rule 50/30/20
\* gives exactly 50000, 30000 and 20000.
C11_BudgetShares ==
  (/\ lastOp.op = "getMonthlyTotals"
   /\ lastOp.result.income_cents.k = "num"
   /\ lastOp.result.income_cents.n >= 0
   /\ WholeRule(settings.rule.f)) =>
    LET income == lastOp.result.income_cents.n
        rule == settings.rule.f
        buckets == lastOp.result.buckets
        total == buckets.Necessities.budget_cents.n
                 + buckets.Leisure.budget_cents.n
                 + buckets.Savings.budget_cents.n
    IN /\ NearShare(buckets.Necessities.budget_cents, income,
                    rule.necessities.n)
       /\ NearShare(buckets.Leisure.budget_cents, income, rule.leisure.n)
       /\ NearShare(buckets.Savings.budget_cents, income, rule.savings.n)
       /\ total - income <= 3
       /\ income - total <= 3
       /\ (income = 100000 /\ rule.necessities = Num(50)
           /\ rule.leisure = Num(30) /\ rule.savings = Num(20)) =>
            /\ buckets.Necessities.budget_cents = Num(50000)
            /\ buckets.Leisure.budget_cents = Num(30000)
            /\ buckets.Savings.budget_cents = Num(20000)

\* A share that is not whole has been rounded: 90 under 35/45/20.
C11_Witness ==
  /\ lastOp.op = "getMonthlyTotals"
  /\ lastOp.result.income_cents = Num(90)
  /\ settings.rule.f.necessities = Num(35)
  /\ settings.rule.f.leisure = Num(45)
  /\ lastOp.result.buckets.Necessities.budget_cents = Num(31)
  /\ lastOp.result.buckets.Leisure.budget_cents = Num(41)
  /\ lastOp.result.buckets.Savings.budget_cents = Num(18)

\* ------------------------------------------------------------ uncategorized
BucketKeys == {"Necessities", "Leisure", "Savings", "Uncategorized"}

\* C12: getMonthlyTotals accumulates the month's expenses whose bucket is null
\* or none of the three buckets under Uncategorized, whose budget_cents is 0
\* and whose remaining_cents is minus its spent_cents; and in a month with
\* zero income every bucket has budget 0 and remaining minus its spend.
C12_Uncategorized ==
  lastOp.op = "getMonthlyTotals" =>
    LET result == lastOp.result
        strays == {i \in InMonth(lastOp.month) :
                     /\ transactions[i].type # Str(INCOME)
                     /\ transactions[i].bucket \notin BUCKETS}
    IN /\ result.buckets.Uncategorized.spent_cents = Num(SumAmounts(strays))
       /\ result.buckets.Uncategorized.budget_cents = Num(0)
       /\ result.buckets.Uncategorized.remaining_cents =
            Num(-SumAmounts(strays))
       /\ result.income_cents = Num(0) =>
            \A key \in BucketKeys :
              /\ result.buckets[key].budget_cents = Num(0)
              /\ result.buckets[key].spent_cents.k = "num"
              /\ result.buckets[key].remaining_cents =
                   Num(-result.buckets[key].spent_cents.n)

\* A month without income in which 1000 was spent with no category and no
\* bucket, and 7 on Savings.
C12_Witness ==
  /\ lastOp.op = "getMonthlyTotals"
  /\ lastOp.result.income_cents = Num(0)
  /\ \E i \in 1..Len(transactions) :
       /\ transactions[i].amount_cents = Num(1000)
       /\ transactions[i].category_id = Null
       /\ transactions[i].bucket = Null
  /\ lastOp.result.buckets.Uncategorized.spent_cents = Num(1000)
  /\ lastOp.result.buckets.Uncategorized.remaining_cents = Num(-1000)
  /\ lastOp.result.buckets.Savings.spent_cents = Num(7)
  /\ lastOp.result.buckets.Savings.remaining_cents = Num(-7)

\* ------------------------------------------------------------ undo
\* App.deleteTransaction(transaction): Store.deleteTransaction(id); the
\* removed record is kept for the Undo of the toast. before is the collection
\* the deletion started from.
AppDeleteTransaction(id) ==
  /\ ready
  /\ \E removed \in {FindById(transactions, id)} :
       Commit(settings, categories, WithoutId(transactions, id), recurring,
              [type |-> "transactions:delete", transaction |-> removed],
              [op |-> "App.deleteTransaction", id |-> id,
               result |-> removed, before |-> transactions])
  /\ UNCHANGED nextId

\* The Undo of the toast: Store.addTransaction({ ...removed }).
Undo ==
  /\ lastOp.op = "App.deleteTransaction"
  /\ Truthy(lastOp.result)
  /\ Len(transactions) < MaxTx
  /\ nextId <= MaxIds
  /\ \E transaction \in
         {buildTransaction(lastOp.result, categories, nextId, clock)} :
       Commit(settings, categories,
              SortTx(Append(transactions, transaction)), recurring,
              [type |-> "transactions:add", transaction |-> Obj(transaction)],
              [op |-> "undo", removed |-> lastOp.result,
               before |-> lastOp.before, result |-> Obj(transaction)])
  /\ nextId' = nextId + 1

DraftGhost == Draft(Str(EXPENSE), Num(30), IdA, Undef, Jan15)
UpdateBucket == Obj([bucket |-> Str(SAVINGS)])

\* A backup whose expense names its category and no bucket.
PayloadPlain ==
  Payload(Num(STORAGE_VERSION), Undef,
          Arr(<<RawCat(IdA, Str(FUN), Str(LEISURE))>>), Undef,
          Arr(<<RawTx(IdB, Str(EXPENSE), Num(5), IdA, Undef, Jan15)>>))

NextUndo ==
  \/ InitStore
  \/ \E draft \in {DraftTips, DraftFun, DraftCash, DraftGhost} :
       AddTransaction(draft)
  \/ UpdateCategory(Str(GenId(3)), UpdateBucket)
  \/ ImportData(PayloadPlain, "merge")
  \/ \E id \in IdsOf(transactions) : AppDeleteTransaction(id)
  \/ Undo

SpecUndo == Init /\ [][NextUndo]_vars

\* C13: deleteTransaction(id) of a transaction of the collection followed by
\* addTransaction of a copy of the removed record makes getMonthlyTotals
\* return, for every month, what it returned before the deletion, and the
\* restored record carries a new id, different from the deleted one.
C13_UndoRestoresTotals ==
  lastOp.op = "undo" =>
    /\ \A month \in Months :
         getMonthlyTotals(transactions, settings, month) =
           getMonthlyTotals(lastOp.before, settings, month)
    /\ lastOp.result.f.id # lastOp.removed.f.id
    /\ \A i \in 1..Len(lastOp.before) :
         lastOp.result.f.id # lastOp.before[i].id

\* ------------------------------------------------------------ income records
DraftPaid ==
  Draft(Str(INCOME), Num(100), Str(GenId(3)), Str(LEISURE), Jan15)
UpdateTagged ==
  Obj([category_id |-> Str(GenId(1)), bucket |-> Str(SAVINGS)])
\* What the edit dialog sends for an expense: no bucket.
UpdateMoved ==
  Obj([amount_cents |-> Num(40), description |-> Str(<<>>),
       category_id |-> Str(GenId(1))])

\* A backup whose income record names a category and a bucket.
PayloadPaid ==
  Payload(Num(STORAGE_VERSION), Undef, Undef, Undef,
          Arr(<<RawTx(IdB, Str(INCOME), Num(100), Str(GenId(3)),
                      Str(LEISURE), Feb01)>>))

NextIncome ==
  \/ InitStore
  \/ \E draft \in {DraftPaid, DraftFun, DraftIncome} : AddTransaction(draft)
  \/ \E id \in IdsOf(transactions), updates \in {UpdateIncome, UpdateTagged,
                                             UpdateMoved} :
       UpdateTransaction(id, updates)
  \/ \E strategy \in Strategies : ImportData(PayloadPaid, strategy)

SpecIncome == Init /\ [][NextIncome]_vars

\* C14: in every state, every transaction of type income of the collection
\* has category_id = null and bucket = null.
C14_IncomeUntagged ==
  \A i \in 1..Len(transactions) :
    transactions[i].type = Str(INCOME) =>
      /\ transactions[i].category_id = Null
      /\ transactions[i].bucket = Null

\* C15: updateTransaction(id, updates) re-resolves the bucket of the merged
\* record. When the resulting type is expense, a valid bucket given in the
\* updates is kept, and otherwise the bucket is that of the category the
\* resulting category_id names (null when there is none), so that an update
\* of category_id alone leaves the expense in the new category's bucket. When
\* the resulting type is income, bucket and category_id are both null.
C15_BucketResolved ==
  (lastOp.op = "updateTransaction" /\ lastOp.result # Null) =>
    LET merged == lastOp.result.f
    IN /\ merged.type = Str(EXPENSE) =>
            merged.bucket =
              IF Field(lastOp.updates, "bucket") \in BUCKETS
              THEN Field(lastOp.updates, "bucket")
              ELSE getCategoryBucket(categories, merged.category_id)
       /\ merged.type = Str(INCOME) =>
            merged.bucket = Null /\ merged.category_id = Null

\* ------------------------------------------------------------ adding
DraftBoth ==
  Draft(Str(EXPENSE), Num(20), Str(GenId(3)), Str(SAVINGS), Jan15)
DraftOdd ==
  Draft(Str(EXPENSE), Num(10), Str(GenId(1)), Str(FUN), Undef)

AddDrafts ==
  {DraftFun, DraftCash, DraftGhost, DraftBoth, DraftOdd, DraftHalf, DraftTips}

NextAdd ==
  \/ InitStore
  \/ \E draft \in AddDrafts : AddTransaction(draft)
  \/ UpdateCategory(Str(GenId(3)), UpdateBucket)
  \/ \E id \in IdsOf(transactions) : DeleteTransaction(id)

SpecAdd == Init /\ [][NextAdd]_vars

\* How often the list holds the record.
Count(list, record) == Cardinality({i \in 1..Len(list) : list[i] = record})

\* The two lists hold the same records, each as often.
SameRecords(a, b) ==
  /\ Len(a) = Len(b)
  /\ \A i \in 1..Len(a) : Count(a, a[i]) = Count(b, a[i])

\* list with the item at position k taken out.
Without(list, k) == SubSeq(list, 1, k - 1) \o SubSeq(list, k + 1, Len(list))

\* The bucket the claim gives to an expense made from the draft.
DraftBucket(draft) ==
  IF Field(draft, "bucket") \in BUCKETS THEN {Field(draft, "bucket")}
  ELSE IF \E i \in 1..Len(categories) :
            categories[i].id = Field(draft, "category_id")
  THEN {categories[i].bucket :
          i \in {j \in 1..Len(categories) :
                   categories[j].id = Field(draft, "category_id")}}
  ELSE {Null}

\* C16: addTransaction(draft) assigns a fresh id, adds exactly one record to
\* the collection and returns that record; for an expense the record's bucket
\* is the draft's bucket when that is one of the three buckets, else the
\* bucket of the category whose id is the draft's category_id, else null
\* (also when category_id names no category).
C16_AddTransaction ==
  [][\A draft \in AddDrafts :
       AddTransaction(draft) =>
         /\ lastOp'.result.f.id \notin IdsOf(transactions)
         /\ \E k \in 1..Len(transactions') :
              /\ Obj(transactions'[k]) = lastOp'.result
              /\ SameRecords(Without(transactions', k), transactions)
         /\ Field(draft, "type") # Str(INCOME) =>
              lastOp'.result.f.bucket \in DraftBucket(draft)]_vars

\* An expense whose draft names the bucket Savings and a Leisure category has
\* been added next to one whose category does not exist.
C16_Witness ==
  /\ lastOp.op = "addTransaction"
  /\ lastOp.result.f.category_id = Str(GenId(3))
  /\ lastOp.result.f.bucket = Str(SAVINGS)
  /\ Len(transactions) = 2
  /\ \E i \in 1..2 : /\ transactions[i].category_id = IdA
                     /\ transactions[i].bucket = Null
  /\ \E i \in 1..Len(categories) :
       categories[i].id = Str(GenId(3)) /\ categories[i].bucket = Str(LEISURE)

\* ------------------------------------------------------------ missing ids
NewTemplate == <<Str(<<SPACE, FUN[1]>>), Frac(12), Undef>>

NextMissing ==
  \/ InitStore
  \/ AddTransaction(DraftFun)
  \/ AddRecurring(NewTemplate[1], NewTemplate[2], NewTemplate[3])
  \/ \E id \in TxIds : \/ UpdateTransaction(id, UpdateDate)
                       \/ DeleteTransaction(id)
  \/ \E id \in IdsOf(categories) \cup {IdC} : UpdateCategory(id, UpdateBucket)
  \/ \E id \in IdsOf(recurring) \cup {IdC} :
       \/ UpdateRecurring(id, UpdateRecurringAmount)
       \/ DeleteRecurring(id)

SpecMissing == Init /\ [][NextMissing]_vars

\* The collection the operation works on.
CollectionOf(op) ==
  IF op \in {"updateTransaction", "deleteTransaction"} THEN transactions
  ELSE IF op = "updateCategory" THEN categories
  ELSE recurring

ByIdOps ==
  {"updateTransaction", "deleteTransaction", "updateCategory",
   "updateRecurring", "deleteRecurring"}

\* C17: updateTransaction, deleteTransaction, updateCategory, updateRecurring
\* and deleteRecurring called with an id that no record carries return an
\* absent result and leave settings and the three collections, contents and
\* order, unchanged.
C17_MissingIdNoChange ==
  [][(/\ lastOp'.op \in ByIdOps
      /\ lastOp'.id \notin IdsOf(CollectionOf(lastOp'.op))) =>
       /\ lastOp'.result \in {Null, Undef}
       /\ UNCHANGED <<settings, categories, transactions, recurring>>]_vars

\* ------------------------------------------------------------ replace import
\* The step is a successful importData with strategy "replace".
ReplaceStep ==
  /\ lastOp'.op = "importData"
  /\ lastOp'.strategy = "replace"
  /\ lastOp'.error = "none"

\* C18: after a successful importData with strategy "replace", settings,
\* categories and recurring are the normalized values of the payload, and
\* transactions are the normalized transactions of the payload, sorted;
\* nothing of the previous state is left.
C18_ReplaceImport ==
  [][ReplaceStep =>
       LET payload == lastOp'.payload
           rawCats == Field(payload, "categories")
           rawRecs == Field(payload, "recurring")
           n1 == nextId + IdsUsed(rawCats)
           n2 == n1 + IdsUsed(rawRecs)
       IN /\ settings' = normalizeSettings(Field(payload, "settings"))
          /\ categories' = normalizeCategories(rawCats, nextId)
          /\ recurring' = normalizeRecurring(rawRecs, n1)
          /\ SameRecords(transactions',
                         normalizeTransactions(Field(payload, "transactions"),
                                               n2, clock))
          /\ \A i \in 1..(Len(transactions') - 1) :
               compareTransactionsDesc(transactions'[i],
                                       transactions'[i + 1]) <= 0]_vars

\* A full backup has replaced a state in which ids had been generated.
C18_Witness ==
  /\ lastOp.op = "importData"
  /\ lastOp.strategy = "replace"
  /\ lastOp.error = "none"
  /\ lastOp.payload = PayloadFull
  /\ nextId > FirstFreeId
  /\ Len(transactions) = 2
  /\ transactions[1].id = IdB
  /\ Len(categories) = 2
  /\ settings.currency = Str(EN_US)

\* ------------------------------------------------------------ merge import
\* C19: after a successful importData with strategy "merge", settings are
\* the normalized settings of the payload, and categories are the current
\* categories, unchanged and in their order, followed by exactly the imported
\* categories whose id no current category carries.
C19_MergeCategories ==
  [][MergeStep =>
       LET payload == lastOp'.payload
           imported == normalizeCategories(Field(payload, "categories"),
                                           nextId)
           IsNew(cat) == cat.id \notin IdsOf(categories)
       IN /\ settings' = normalizeSettings(Field(payload, "settings"))
          /\ Len(categories') >= Len(categories)
          /\ SubSeq(categories', 1, Len(categories)) = categories
          /\ SubSeq(categories', Len(categories) + 1, Len(categories')) =
               SelectSeq(imported, IsNew)]_vars

\* A backup with a category of a current id and a category of a new id has
\* been merged: the current category is kept as it was, the new one follows.
C19_Witness ==
  /\ lastOp.op = "importData"
  /\ lastOp.strategy = "merge"
  /\ lastOp.error = "none"
  /\ lastOp.payload = PayloadFull
  /\ Len(categories) = 4
  /\ categories[3].id = Str(GenId(3))
  /\ categories[3].bucket = Str(LEISURE)
  /\ categories[4].id = IdA
  /\ settings.currency = Str(EN_US)

\* ------------------------------------------------------------ categories
UpdateName == Obj([name |-> Str(GROCERIES), bucket |-> Str(SAVINGS)])
UpdateCategoryId == Obj([id |-> IdC])

NextCategories ==
  \/ InitStore
  \/ AddCategory(Str(FUN), Str(LEISURE))
  \/ UpdateCategory(Str(GenId(1)), UpdateName)
  \/ UpdateCategory(Str(GenId(3)), UpdateCategoryId)
  \/ \E archived \in {Bool(TRUE), Bool(FALSE)} :
       ArchiveCategory(Str(GenId(3)), archived)
  \/ AddTransaction(DraftFun)
  \/ \E id \in IdsOf(transactions) : DeleteTransaction(id)
  \/ AddRecurring(NewTemplate[1], NewTemplate[2], NewTemplate[3])
  \/ SaveSettings(UpdateRule)
  \/ ImportData(PayloadPlain, "merge")

SpecCategories == Init /\ [][NextCategories]_vars

\* The step is archiveCategory(id, archived).
ArchiveStep ==
  /\ lastOp'.op = "updateCategory"
  /\ DOMAIN lastOp'.updates.f = {"archived"}

\* C20: addCategory, updateCategory, archiveCategory, the transaction and
\* recurring operations, saveSettings and merge imports delete no category:
\* every category id of the collection is still in it after the step; and
\* archiving changes nothing but the archived flag of its category, which the
\* transactions go on referring to.
C20_CategoriesKept ==
  [][/\ IdsOf(categories) \subseteq IdsOf(categories')
     /\ ArchiveStep =>
          /\ Len(categories') = Len(categories)
          /\ \A i \in 1..Len(categories) :
               categories'[i] =
                 IF categories[i].id = lastOp'.id
                 THEN [categories[i] EXCEPT
                         !.archived = lastOp'.updates.f.archived]
                 ELSE categories[i]
          /\ UNCHANGED transactions]_vars

\* ------------------------------------------------------------ category names
Blank == Str(<<SPACE, SPACE>>)
Padded == Str(<<SPACE>> \o FUN \o <<SPACE>>)
CategoryNames == {Str(<<>>), Blank, Padded, Str(GROCERIES)}
CategoryBuckets == {Str(LEISURE), Str(FUN), Undef}

UpdateBlank == Obj([name |-> Blank])
UpdatePadded == Obj([name |-> Padded, bucket |-> Str(FUN)])

NextNames ==
  \/ InitStore
  \/ \E name \in CategoryNames, bucket \in CategoryBuckets :
       AddCategory(name, bucket)
  \/ \E updates \in {UpdateBlank, UpdatePadded, UpdateName} :
       UpdateCategory(Str(GenId(1)), updates)
  \/ \E archived \in {Bool(TRUE), Bool(FALSE)} :
       ArchiveCategory(Str(GenId(1)), archived)

SpecNames == Init /\ [][NextNames]_vars

\* Nothing but spaces.
IsBlank(chars) == \A i \in 1..Len(chars) : chars[i] = SPACE

\* The name the claim gives a category for the supplied name: "Untitled" for
\* an empty or blank one, else the supplied name without the spaces around it.
IsNameOf(name, supplied) ==
  /\ IsStr(name)
  /\ name.s # <<>>
  /\ name.s[1] # SPACE
  /\ name.s[Len(name.s)] # SPACE
  /\ IF IsBlank(supplied.s) THEN name = Str(UNTITLED)
     ELSE \E i, j \in 0..Len(supplied.s) :
            /\ IsBlank(SubSeq(supplied.s, 1, i))
            /\ IsBlank(SubSeq(supplied.s, j + 1, Len(supplied.s)))
            /\ name.s = SubSeq(supplied.s, i + 1, j)

\* The bucket the claim gives a category for the supplied bucket.
IsBucketOf(bucket, supplied) ==
  bucket = IF supplied \in BUCKETS THEN supplied ELSE Str(NECESSITIES)

\* C21: after addCategory, updateCategory or archiveCategory the affected
\* category has a trimmed, non-empty name ("Untitled" when the supplied name
\* is empty or blank) and a bucket that is one of the three buckets
\* (Necessities when the supplied bucket is none of them).
C21_CategoryValid ==
  [][/\ \A name \in CategoryNames, bucket \in CategoryBuckets :
          AddCategory(name, bucket) =>
            /\ IsNameOf(lastOp'.result.f.name, name)
            /\ IsBucketOf(lastOp'.result.f.bucket, bucket)
     /\ (lastOp'.op = "updateCategory" /\ lastOp'.result # Null) =>
          LET category == lastOp'.result.f
              name == Field(lastOp'.updates, "name")
              bucket == Field(lastOp'.updates, "bucket")
          IN /\ IsStr(category.name)
             /\ category.name.s # <<>>
             /\ category.name.s[1] # SPACE
             /\ category.name.s[Len(category.name.s)] # SPACE
             /\ name # Undef => IsNameOf(category.name, name)
             /\ category.bucket \in BUCKETS
             /\ bucket # Undef => IsBucketOf(category.bucket, bucket)]_vars

\* ------------------------------------------------------------ corrupted keys
\* What each key of localStorage may hold when the page is opened: nothing,
\* text that is not JSON, or a value the application wrote.
StoredValues ==
  [settings |->
     JsonSettings([DEFAULT_SETTINGS EXCEPT !.currency = Str(EN_US)]),
   categories |->
     Arr(<<Obj([id |-> IdA, name |-> Str(FUN), bucket |-> Str(SAVINGS),
                archived |-> Bool(TRUE)])>>),
   transactions |-> Arr(<<StoredTxNew>>),
   recurring |->
     Arr(<<Obj([id |-> IdB, description |-> Str(TEMPLATE),
                default_amount_cents |-> Num(0), category_id |-> Null])>>)]

StoredStorages ==
  [settings : {Absent, Corrupt, StoredValues.settings},
   categories : {Absent, Corrupt, StoredValues.categories},
   transactions : {Absent, Corrupt, StoredValues.transactions},
   recurring : {Absent, Corrupt, StoredValues.recurring}]

\* The Store of a page that has loaded the script, whatever localStorage holds.
InitMemory ==
  /\ settings = DEFAULT_SETTINGS
  /\ categories = <<>>
  /\ transactions = <<>>
  /\ recurring = <<>>
  /\ corruption = [hasCorruption |-> FALSE, keys |-> {}]
  /\ corruptedKeys = {}
  /\ listeners = <<>>
  /\ delivered = NoDelivery
  /\ lastOp = [op |-> "load"]
  /\ nextId = FirstFreeId
  /\ clock = 1
  /\ ready = FALSE
  /\ page = [phase |-> "idle"]

InitStored == InitMemory /\ storage \in StoredStorages

NextReload ==
  \/ InitStore
  \/ Subscribe(1)
  \/ AddTransaction(DraftFun)

SpecReload == InitStored /\ [][NextReload]_vars

\* The collections of a state, by key.
Collections(s, cats, txs, recs) ==
  [settings |-> s, categories |-> cats, transactions |-> txs,
   recurring |-> recs]

\* What init gives a key whose text is not JSON.
KeyDefaults ==
  Collections(DEFAULT_SETTINGS, DEFAULT_CATEGORIES, <<>>, <<>>)

\* What init gives each key from the value the application wrote.
KeyLoaded ==
  Collections(normalizeSettings(StoredValues.settings),
              normalizeCategories(StoredValues.categories, nextId),
              normalizeTransactions(StoredValues.transactions, nextId, clock),
              normalizeRecurring(StoredValues.recurring, nextId))

\* C22: when a persisted key fails to deserialize at init, init completes and
\* notifies; the collection of that key falls back to its defaults, the keys
\* that hold a stored value are loaded from it, and the state's corruption
\* record has hasCorruption = true and lists exactly the keys that failed;
\* when no key fails the flag is false.
C22_CorruptKeyFallsBack ==
  [][lastOp'.op = "init" =>
       LET after == Collections(settings', categories', transactions',
                                recurring')
           failed == {key \in STORAGE_KEYS : storage[key] = Corrupt}
       IN /\ ready'
          /\ delivered'.to = listeners
          /\ listeners # <<>> =>
               /\ delivered'.detail.type = "init"
               /\ delivered'.state.corruption = corruption'
          /\ \A key \in failed : after[key] = KeyDefaults[key]
          /\ \A key \in STORAGE_KEYS :
               storage[key] = StoredValues[key] => after[key] = KeyLoaded[key]
          /\ corruption'.keys = failed
          /\ corruption'.hasCorruption = (failed # {})]_vars

\* The categories key did not deserialize, the other three held stored
\* values, and a subscriber was told of the init.
C22_Witness ==
  /\ lastOp.op = "init"
  /\ corruption = [hasCorruption |-> TRUE, keys |-> {"categories"}]
  /\ categories = DEFAULT_CATEGORIES
  /\ settings.currency = Str(EN_US)
  /\ Len(transactions) = 1
  /\ Len(recurring) = 1
  /\ delivered.to = <<1>>

\* ------------------------------------------------------------ reset
NextReset ==
  \/ InitStore
  \/ \E l \in 1..MaxListeners : Subscribe(l)
  \/ AddTransaction(DraftFun)
  \/ AddCategory(Str(FUN), Str(LEISURE))
  \/ AddRecurring(NewTemplate[1], NewTemplate[2], NewTemplate[3])
  \/ SaveSettings(UpdateRule)
  \/ ImportData(PayloadFull, "replace")
  \/ Reset

SpecReset == Init /\ [][NextReset]_vars

\* The four persisted keys after a reset.
ResetStorage ==
  [settings |-> JsonSettings(DEFAULT_SETTINGS),
   categories |-> JsonList(DEFAULT_CATEGORIES),
   transactions |-> Arr(<<>>),
   recurring |-> Arr(<<>>)]

\* C23: reset() leaves transactions and recurring templates empty, settings
\* equal to the defaults and categories equal to the starter set, in memory
\* and in the four persisted keys, and calls every subscriber once with the
\* type "app:reset".
C23_Reset ==
  [][lastOp'.op = "reset" =>
       /\ transactions' = <<>>
       /\ recurring' = <<>>
       /\ settings' = DEFAULT_SETTINGS
       /\ categories' = DEFAULT_CATEGORIES
       /\ storage' = ResetStorage
       /\ delivered'.to = listeners
       /\ listeners # <<>> =>
            /\ delivered'.detail.type = "app:reset"
            /\ delivered'.state.transactions = <<>>
            /\ delivered'.state.categories = DEFAULT_CATEGORIES
            /\ delivered'.state.settings = DEFAULT_SETTINGS
            /\ delivered'.persisted = ResetStorage]_vars

\* Two subscribers were told of a reset, after records had been added (ids
\* had been generated).
C23_Witness ==
  /\ lastOp.op = "reset"
  /\ Len(delivered.to) = 2
  /\ nextId > FirstFreeId
  /\ transactions = <<>>
  /\ categories = DEFAULT_CATEGORIES

\* ------------------------------------------------------------ settings
\* Settings an earlier version or another tool may have stored.
StoredOddSettings ==
  Obj([schema_version |-> Num(STORAGE_VERSION), firstDayOfWeek |-> Num(0),
       showAdvancedCharts |-> Str(USD), hapticFeedback |-> Null])

InitSettings ==
  /\ InitMemory
  /\ storage \in {FreshStorage,
                  [FreshStorage EXCEPT !.settings = Corrupt],
                  [FreshStorage EXCEPT !.settings = StoredOddSettings]}

\* Partial settings a caller may save.
SettingsUpdates ==
  { Obj([firstDayOfWeek |-> Num(0)]),
    Obj([firstDayOfWeek |-> Frac(0), schema_version |-> Num(7)]),
    Obj([firstDayOfWeek |-> Str(<<>>), showAdvancedCharts |-> Num(1),
         hapticFeedback |-> Str(<<>>)]),
    Obj([schema_version |-> Null, hapticFeedback |-> Str(USD)]) }

NextSettings ==
  \/ InitStore
  \/ \E updates \in SettingsUpdates : SaveSettings(updates)
  \/ \E raw \in RawSettings, strategy \in Strategies :
       ImportData(Payload(Num(STORAGE_VERSION), raw, Undef, Undef, Undef),
                  strategy)
  \/ ImportExport
  \/ Reset

SpecSettings == InitSettings /\ [][NextSettings]_vars

\* The raw firstDayOfWeek the step normalizes: that of the stored settings,
\* of the payload's settings, or of the merge of the current settings with
\* the updates.
RawFirstDay ==
  IF lastOp'.op = "init" THEN Field(read(storage, "settings", Null),
                                    "firstDayOfWeek")
  ELSE IF lastOp'.op = "importData"
  THEN Field(Field(lastOp'.payload, "settings"), "firstDayOfWeek")
  ELSE IF Field(lastOp'.updates, "firstDayOfWeek") # Undef
  THEN Field(lastOp'.updates, "firstDayOfWeek")
  ELSE settings.firstDayOfWeek

\* C24: in every state, whatever was loaded, imported or passed to
\* saveSettings, settings.schema_version is the current version,
\* firstDayOfWeek is 0 or 1, and 0 only when the raw value is exactly 0,
\* showAdvancedCharts and hapticFeedback are booleans, and importData accepts
\* the payload of exportData.
C24_SettingsNormalized ==
  /\ [](/\ settings.schema_version = Num(STORAGE_VERSION)
        /\ settings.firstDayOfWeek \in {Num(0), Num(1)}
        /\ settings.showAdvancedCharts \in {Bool(TRUE), Bool(FALSE)}
        /\ settings.hapticFeedback \in {Bool(TRUE), Bool(FALSE)}
        /\ ~schemaMismatch(exportData(settings, categories, transactions,
                                      recurring)))
  /\ [][(/\ lastOp'.op \in {"init", "saveSettings", "importData"}
         /\ lastOp'.op = "importData" => lastOp'.error = "none") =>
          (settings'.firstDayOfWeek = Num(0) <=> RawFirstDay = Num(0))]_vars
  /\ [][(/\ lastOp'.op = "importData"
         /\ lastOp'.payload = exportData(settings, categories, transactions,
                                         recurring))
          => lastOp'.error = "none"]_vars

\* Settings saved with a fractional firstDayOfWeek, a version of 7 and
\* non-boolean flags over stored settings whose firstDayOfWeek was 0.
C24_Witness ==
  /\ lastOp.op = "saveSettings"
  /\ Field(lastOp.updates, "schema_version") = Num(7)
  /\ settings.firstDayOfWeek = Num(1)
  /\ settings.showAdvancedCharts = Bool(TRUE)
  /\ settings.schema_version = Num(STORAGE_VERSION)

\* ------------------------------------------------------------ re-entrancy
\* The calls notify(outer) makes when the callback at position k answers its
\* call by a mutation of its own: the forEach of the outer round is suspended
\* in callback k while the inner mutation runs its whole round, and the
\* callbacks after k get the outer detail with the getState() of that moment.
notifyReentered(ls, k, outerState, outerDetail, innerState, innerDetail) ==
  [i \in 1..k |->
     [to |-> ls[i], state |-> outerState, detail |-> outerDetail]]
  \o [i \in 1..Len(ls) |->
        [to |-> ls[i], state |-> innerState, detail |-> innerDetail]]
  \o [i \in 1..(Len(ls) - k) |->
        [to |-> ls[k + i], state |-> innerState, detail |-> outerDetail]]

\* Store.addTransaction(draft) while the callback of listener l answers a
\* "transactions:add" that it did not cause by Store.addTransaction(reaction).
AddTransactionReentered(draft, l, reaction) ==
  /\ ready
  /\ Len(transactions) + 2 <= MaxTx
  /\ nextId + 1 <= MaxIds
  /\ \E k \in 1..Len(listeners) :
       /\ listeners[k] = l
       /\ \E outer \in {buildTransaction(draft, categories, nextId, clock)} :
          \E inner \in {buildTransaction(reaction, categories, nextId + 1,
                                         clock)} :
          \E first \in {getState(settings, categories,
                                 SortTx(Append(transactions, outer)),
                                 recurring, corruption)} :
          \E second \in {getState(settings, categories,
                                  SortTx(Append(first.transactions, inner)),
                                  recurring, corruption)} :
          \E calls \in {notifyReentered(
                          listeners, k, first,
                          [type |-> "transactions:add",
                           transaction |-> Obj(outer)],
                          second,
                          [type |-> "transactions:add",
                           transaction |-> Obj(inner)])} :
            /\ settings' = second.settings
            /\ categories' = second.categories
            /\ transactions' = second.transactions
            /\ recurring' = second.recurring
            /\ storage' = persist(second.settings, second.categories,
                                  second.transactions, second.recurring)
            /\ delivered' = [to |-> [i \in 1..Len(calls) |-> calls[i].to],
                             state |-> second, persisted |-> storage',
                             detail |-> calls[Len(calls)].detail,
                             calls |-> calls]
            /\ lastOp' = [op |-> "addTransaction", result |-> Obj(outer),
                          applied |-> <<Obj(outer), Obj(inner)>>]
  /\ nextId' = nextId + 2
  /\ UNCHANGED <<corruption, corruptedKeys, listeners, clock, ready, page>>

NextReentrant ==
  \/ InitStore
  \/ \E l \in 1..MaxListeners : Subscribe(l)
  \/ \E l \in 1..MaxListeners : Unsubscribe(l)
  \/ \E draft \in {DraftFun, DraftIncome} : AddTransaction(draft)
  \/ \E id \in IdsOf(transactions) : DeleteTransaction(id)
  \/ \E l \in 1..MaxListeners :
       AddTransactionReentered(DraftFun, l, DraftIncome)

SpecReentrant == Init /\ [][NextReentrant]_vars

\* The transactions listener l was told of by the last operation, in the
\* order of the calls.
ToldTo(l) ==
  LET mine == SelectSeq(delivered.calls, LAMBDA call : call.to = l)
  IN [i \in 1..Len(mine) |-> mine[i].detail.transaction]

\* C25: a mutation a subscriber makes from its callback does not run inside
\* the round in progress, so every listener is told of the changes in the
\* order in which they were applied.
C25_NoNestedRound ==
  "applied" \in DOMAIN lastOp =>
    \A l \in 1..MaxListeners :
      Registered(listeners, l) => ToldTo(l) = lastOp.applied

\* ------------------------------------------------------------ stale cursors
\* A caller pages through the list while the list is being changed.
NextCursor ==
  \/ InitStore
  \/ \E id \in IdsOf(transactions) : DeleteTransaction(id)
  \/ \E payload \in {PayloadFull, PayloadBar} : ImportData(payload, "replace")
  \/ \E limit \in 1..MaxLimit : PageStart(limit)
  \/ PageNext
  \/ PageClose

SpecCursor == Init /\ [][NextCursor]_vars

\* The cursor is the one getRecentTransactions builds for a current record.
CursorOfCurrent(cursor) ==
  \E i \in 1..Len(transactions) :
    /\ IsStr(transactions[i].date_iso) /\ IsStr(transactions[i].id)
    /\ cursor = JoinBar(transactions[i].date_iso, transactions[i].id)

\* C26: getRecentTransactions with a cursor that is not null and is the
\* cursor of no current transaction returns the items, nextCursor and hasMore
\* of the call with a null cursor.
C26_StaleCursorRestarts ==
  (/\ lastOp.op = "getRecentTransactions"
   /\ lastOp.cursor # Null
   /\ ~CursorOfCurrent(lastOp.cursor))
  => lastOp.result = getRecentTransactions(transactions, lastOp.limit, Null)

\* ------------------------------------------------------------ snapshots
\* Every operation and query, from a storage whose transactions are stored
\* out of order.
NextSnapshot ==
  \/ InitStore
  \/ AddTransaction(DraftFun)
  \/ \E id \in IdsOf(transactions) : UpdateTransaction(id, UpdateDate)
  \/ \E id \in IdsOf(transactions) : DeleteTransaction(id)
  \/ ArchiveCategory(Str(GenId(3)), Bool(TRUE))
  \/ SaveSettings(UpdateRule)
  \/ ImportData(PayloadSmall, "merge")
  \/ Reset
  \/ PageStart(1)
  \/ QueryMonthlyTotals(<<2024, 0>>)

SpecSnapshot == Init /\ [][NextSnapshot]_vars

SnapshotFields ==
  {"settings", "categories", "transactions", "recurring", "corruption"}

\* The fields to which the first n statements assigned a new object.
Assigned(stmts, n) ==
  {stmts[i].field : i \in {j \in 1..n : stmts[j].kind = "assign"}}

\* The fields whose object, as it was before the operation, is changed by it.
Touched(stmts) ==
  {stmts[i].field :
     i \in {j \in 1..Len(stmts) :
              /\ stmts[j].kind = "inplace"
              /\ stmts[j].field \notin Assigned(stmts, j - 1)}}

\* What a snapshot taken before the operation shows in a field afterwards.
HeldAfter(snapshot, field, stmts) ==
  IF field \in Touched(stmts) /\ field = "transactions"
  THEN SortTx(snapshot.transactions)
  ELSE snapshot[field]

NextDelete ==
  \/ InitStore
  \/ Subscribe(1)
  \/ \E draft \in {DraftFun, DraftIncome} : AddTransaction(draft)
  \/ \E id \in TxIds : DeleteTransaction(id)
  \/ ImportData(PayloadTwice, "replace")
  \/ SaveSettings(UpdateRule)

SpecDelete == Init /\ [][NextDelete]_vars

\* C28: deleteTransaction(id) of an id that is in the collection returns a
\* record carrying that id; afterwards no transaction of the collection and
\* none of the persisted transactions carries it, the other transactions
\* are the same records in the same order, settings, categories and
\* recurring templates are unchanged, and nothing but the four collections
\* without the record is kept, in the state or in storage.
C28_DeleteTransaction ==
  [][(/\ lastOp'.op = "deleteTransaction"
      /\ \E i \in 1..Len(transactions) : transactions[i].id = lastOp'.id)
     =>
     /\ \E i \in 1..Len(transactions) :
          /\ transactions[i].id = lastOp'.id
          /\ lastOp'.result = Obj(transactions[i])
     /\ \A i \in 1..Len(transactions') : transactions'[i].id # lastOp'.id
     /\ transactions' =
          SelectSeq(transactions, LAMBDA tx : tx.id # lastOp'.id)
     /\ UNCHANGED <<settings, categories, recurring, corruption>>
     /\ storage' = [settings |-> JsonSettings(settings),
                    categories |-> JsonList(categories),
                    transactions |-> JsonList(transactions'),
                    recurring |-> JsonList(recurring)]
     /\ \A i \in 1..Len(storage'.transactions.items) :
          Field(storage'.transactions.items[i], "id") # lastOp'.id]_vars

\* A record was deleted from a list of two and the other one is left.
C28_Witness ==
  /\ lastOp.op = "deleteTransaction"
  /\ lastOp.result # Null
  /\ Len(transactions) = 1
  /\ transactions[1].id # lastOp.id
  /\ storage.transactions = JsonList(transactions)

\* ------------------------------------------------------------ recurring
\* Amounts a caller may pass: 12.5, -2.5, 0, a word, nothing, Infinity.
TemplateAmounts == {Frac(12), Frac(-3), Num(0), Str(FUN), Undef, Inf}

PayloadTemplates(list) ==
  Payload(Num(STORAGE_VERSION), Undef, Undef, list, Undef)

NextRecurring ==
  \/ InitStore
  \/ \E amount \in TemplateAmounts : AddRecurring(Str(FUN), amount, Undef)
  \/ \E id \in IdsOf(recurring), amount \in TemplateAmounts :
       UpdateRecurring(id, Obj([default_amount_cents |-> amount]))
  \/ \E id \in IdsOf(recurring) : DeleteRecurring(id)
  \/ \E list \in RawRecurringLists, strategy \in Strategies :
       ImportData(PayloadTemplates(list), strategy)
  \/ Reset

SpecRecurring == Init /\ [][NextRecurring]_vars

\* C29: every recurring template of every reachable state has a
\* default_amount_cents that is an integer and not negative, whatever was
\* passed to addRecurring or updateRecurring or read by the normalizer, and a
\* template whose amount is 0 is kept: the added template is in the
\* collection, and a replace import keeps one template for each object of
\* the list.
C29_TemplateAmounts ==
  /\ \A i \in 1..Len(recurring) :
       /\ recurring[i].default_amount_cents.k = "num"
       /\ recurring[i].default_amount_cents.n >= 0
  /\ lastOp.op = "addRecurring" =>
       \E i \in 1..Len(recurring) : Obj(recurring[i]) = lastOp.result
  /\ (/\ lastOp.op = "importData" /\ lastOp.error = "none"
      /\ lastOp.strategy = "replace"
      /\ IsArray(Field(lastOp.payload, "recurring")))
     => Len(recurring) = Len(ObjectsOf(Field(lastOp.payload, "recurring")))

\* ------------------------------------------------------------ spending
UNCATEGORIZED_KEY == <<126>>
UNCATEGORIZED == <<127>>

\* A grouping that puts every expense under the synthetic key.
spendingKeyOfNone(tx) == Str(UNCATEGORIZED_KEY)

\* tx.category_id || "uncategorized"
spendingKey(tx) ==
  IF Truthy(tx.category_id) THEN tx.category_id ELSE Str(UNCATEGORIZED_KEY)

RECURSIVE spendingLoop(_, _, _, _, _)
\* The for-loop of getSpendingByCategory from position i on; entries are the
\* values of the Map in insertion order.
spendingLoop(txs, cats, i, month, entries) ==
  IF i > Len(txs) THEN entries
  ELSE LET tx == txs[i]
           id == spendingKey(tx)
           known == {k \in 1..Len(entries) : entries[k].category_id = id}
           hits == {k \in 1..Len(cats) : cats[k].id = tx.category_id}
           category ==
             IF hits = {} THEN Null
             ELSE Obj(cats[CHOOSE k \in hits : \A j \in hits : k <= j])
           created ==
             IF known # {} THEN entries
             ELSE Append(entries,
                    [category_id |-> id,
                     name |-> IF Truthy(category) THEN Field(category, "name")
                              ELSE Str(UNCATEGORIZED),
                     bucket |-> IF Truthy(category)
                                THEN Field(category, "bucket") ELSE Null,
                     spent_cents |-> Num(0),
                     count |-> Num(0)])
           at == CHOOSE k \in 1..Len(created) : created[k].category_id = id
       IN IF tx.type # Str(EXPENSE)
             \/ ~isSameMonth(tx.date_iso, month[1], month[2])
          THEN spendingLoop(txs, cats, i + 1, month, entries)
          ELSE spendingLoop(txs, cats, i + 1, month,
                 [created EXCEPT
                    ![at].spent_cents = NumAdd(@, tx.amount_cents),
                    ![at].count = NumAdd(@, Num(1))])

\* One insertion of the stable sort under (a, b) => b.spent_cents -
\* a.spent_cents: x goes behind every element that does not compare after it
\* (a NaN difference counts as 0).
InsertEntry(sorted, x) ==
  LET NotAfter(e) ==
        LET d == NumSub(x.spent_cents, e.spent_cents)
        IN d.k # "num" \/ d.n <= 0
      before == {i \in 1..Len(sorted) : NotAfter(sorted[i])}
      p == IF before = {} THEN 0
           ELSE CHOOSE i \in before : \A j \in before : j <= i
  IN SubSeq(sorted, 1, p) \o <<x>> \o SubSeq(sorted, p + 1, Len(sorted))

RECURSIVE SortEntries(_)
SortEntries(list) ==
  IF list = <<>> THEN <<>>
  ELSE CHOOSE result \in
         {InsertEntry(sorted, list[Len(list)]) :
            sorted \in {SortEntries(SubSeq(list, 1, Len(list) - 1))}} : TRUE

\* Store.getSpendingByCategory(year, monthIndex); month is
\* <<year, monthIndex>>.
getSpendingByCategory(txs, cats, month) ==
  CHOOSE result \in
    {SortEntries(entries) :
       entries \in {spendingLoop(txs, cats, 1, month, <<>>)}} : TRUE

\* A caller asks Store.getSpendingByCategory(year, monthIndex).
QuerySpendingByCategory(month) ==
  /\ ready
  /\ lastOp' = [op |-> "getSpendingByCategory", month |-> month,
                result |-> getSpendingByCategory(transactions, categories,
                                                 month)]
  /\ delivered' = NoDelivery
  /\ UNCHANGED <<settings, categories, transactions, recurring, corruption,
                 storage, corruptedKeys, listeners, nextId, clock, ready,
                 page>>

\* Expenses of three categories, of a category that does not exist and of
\* none, while a category is renamed and moved to another bucket.
NextSpending ==
  \/ InitStore
  \/ \E draft \in {DraftFun, DraftBoth, DraftRent, DraftGhost, DraftCash,
                    DraftZero, DraftTips} :
       AddTransaction(draft)
  \/ \E id \in IdsOf(transactions) : UpdateTransaction(id, UpdateDate)
  \/ UpdateCategory(Str(GenId(3)), UpdateName)
  \/ \E month \in Months : QuerySpendingByCategory(month)

SpecSpending == Init /\ [][NextSpending]_vars

\* The positions of the expenses dated in the month.
ExpensesIn(month) ==
  {i \in InMonth(month) : transactions[i].type = Str(EXPENSE)}

\* The key an expense is reported under.
KeyOf(i) ==
  IF transactions[i].category_id \in {Null, Undef, Str(<<>>)}
  THEN Str(UNCATEGORIZED_KEY) ELSE transactions[i].category_id

\* C30: getSpendingByCategory(year, month) returns one entry for each
\* category_id among the expenses of the month (the expenses without one
\* share the key "uncategorized"); an entry's spent_cents and count are the
\* sum and the number of its expenses, its name and bucket are those the
\* category has in the current list ("Uncategorized" and null when the list
\* has no such category), and no entry follows one of smaller spent_cents.
C30_SpendingByCategory ==
  lastOp.op = "getSpendingByCategory" =>
    LET r == lastOp.result
        mine == ExpensesIn(lastOp.month)
        Of(key) == {i \in mine : KeyOf(i) = key}
    IN /\ {r[k].category_id : k \in 1..Len(r)} = {KeyOf(i) : i \in mine}
       /\ Len(r) = Cardinality({KeyOf(i) : i \in mine})
       /\ \A k \in 1..Len(r) :
            /\ r[k].spent_cents = Num(SumAmounts(Of(r[k].category_id)))
            /\ r[k].count = Num(Cardinality(Of(r[k].category_id)))
            /\ \/ \E c \in 1..Len(categories) :
                    /\ categories[c].id = r[k].category_id
                    /\ r[k].name = categories[c].name
                    /\ r[k].bucket = categories[c].bucket
               \/ /\ \A c \in 1..Len(categories) :
                       categories[c].id # r[k].category_id
                  /\ r[k].name = Str(UNCATEGORIZED)
                  /\ r[k].bucket = Null
       /\ \A j, k \in 1..Len(r) :
            j < k => r[j].spent_cents.n >= r[k].spent_cents.n

\* Two expenses of one category reported in one entry, with the name and
\* bucket the category was given after they were entered.
C30_Witness ==
  /\ lastOp.op = "getSpendingByCategory"
  /\ Len(lastOp.result) = 1
  /\ lastOp.result[1].count = Num(2)
  /\ lastOp.result[1].spent_cents = Num(60)
  /\ lastOp.result[1].name = Str(GROCERIES)
  /\ lastOp.result[1].bucket = Str(SAVINGS)

\* ------------------------------------------------------------ activity
DE_DE == <<133>>
EN_UNDERSCORE == <<134>>
SOON == <<135>>

\* The strings Intl.DateTimeFormat accepts as a locale: well-formed language
\* tags ("en-US", "de-DE"). Any other string ("en_US", "") makes the
\* constructor throw a RangeError, null or a number a TypeError.
WellFormedLocale(locale) == locale \in {Str(EN_US), Str(DE_DE)}

\* dateFormatter.format(new Date(dateIso)) with year, short month and day:
\* the day of the date as the locale writes it.
dayLabelOf(locale, dateIso) == Str(locale.s \o dateIso.s)

\* A loop that opens a group for every entry.
RECURSIVE groupLoopEach(_, _, _, _)
groupLoopEach(items, i, locale, grouped) ==
  IF i > Len(items) THEN grouped
  ELSE groupLoopEach(items, i + 1, locale,
         Append(grouped,
                [dateLabel |-> dayLabelOf(locale, items[i].date_iso),
                 entries |-> <<items[i]>>]))

RECURSIVE groupLoop(_, _, _, _)
\* The loop of getActivityGroups from item i on: a new group is opened when
\* there is none or the day label differs from the current group's.
groupLoop(items, i, locale, grouped) ==
  IF i > Len(items) THEN grouped
  ELSE CHOOSE result \in
    {LET n == Len(grouped)
     IN IF n = 0 \/ grouped[n].dateLabel # dayLabel
        THEN groupLoop(items, i + 1, locale,
               Append(grouped, [dateLabel |-> dayLabel,
                                entries |-> <<items[i]>>]))
        ELSE groupLoop(items, i + 1, locale,
               [grouped EXCEPT ![n].entries = Append(@, items[i])]) :
     dayLabel \in {dayLabelOf(locale, items[i].date_iso)}} : TRUE

\* Store.getActivityGroups(year, monthIndex, {pageSize, cursor}): the page,
\* the formatter (which throws on a locale that is no language tag), the
\* loop (whose format throws on an Invalid Date). The month is only read by a
\* test with an empty body.
getActivityGroups(txs, s, month, pageSize, cursor) ==
  CHOOSE result \in
    {IF ~WellFormedLocale(s.locale)
     THEN [error |-> "RangeError: Incorrect locale information provided"]
     ELSE IF \E i \in 1..Len(recent.items) :
               ~ValidDate(recent.items[i].date_iso)
     THEN [error |-> "RangeError: Invalid time value"]
     ELSE [error |-> "none",
           groups |-> groupLoop(recent.items, 1, s.locale, <<>>),
           nextCursor |-> recent.nextCursor,
           hasMore |-> recent.hasMore] :
     recent \in {getRecentTransactions(txs, pageSize, cursor)}} : TRUE

\* App.renderActivity(append): Store.getActivityGroups for the month shown,
\* from the start or from the cursor the last call returned.
QueryActivityGroups(month, pageSize, append) ==
  /\ ready
  /\ append =>
       /\ lastOp.op = "getActivityGroups"
       /\ lastOp.result.error = "none"
  /\ \E cursor \in {IF append THEN lastOp.result.nextCursor ELSE Null} :
       lastOp' = [op |-> "getActivityGroups", month |-> month,
                  limit |-> pageSize, cursor |-> cursor,
                  result |-> getActivityGroups(transactions, settings, month,
                                               pageSize, cursor)]
  /\ delivered' = NoDelivery
  /\ UNCHANGED <<settings, categories, transactions, recurring, corruption,
                 storage, corruptedKeys, listeners, nextId, clock, ready,
                 page>>

\* What the settings form sends as the locale: the text of the field.
UpdateLocaleDe == Obj([locale |-> Str(DE_DE)])
UpdateLocaleUnderscore == Obj([locale |-> Str(EN_UNDERSCORE)])

\* A backup with a record whose date is a string that is no date.
PayloadSoon ==
  Payload(Num(STORAGE_VERSION), Undef, Undef, Undef,
          Arr(<<RawTx(IdA, Str(EXPENSE), Num(7), Null, Null, Str(SOON))>>))

NextActivity ==
  \/ InitStore
  \/ \E draft \in {DraftFun, DraftTips, DraftCash} : AddTransaction(draft)
  \/ \E id \in IdsOf(transactions) : DeleteTransaction(id)
  \/ \E updates \in {UpdateLocaleDe, UpdateLocaleUnderscore} :
       SaveSettings(updates)
  \/ ImportData(PayloadSoon, "merge")
  \/ \E month \in Months, pageSize \in 1..MaxLimit, append \in BOOLEAN :
       QueryActivityGroups(month, pageSize, append)

SpecActivity == Init /\ [][NextActivity]_vars

RECURSIVE Flatten(_)
\* The entries of the groups, concatenated in order.
Flatten(groups) ==
  IF groups = <<>> THEN <<>>
  ELSE groups[1].entries \o Flatten(Tail(groups))

\* C31: getActivityGroups(year, month, {pageSize, cursor}) returns groups
\* whose entries, concatenated in order, are the items of
\* getRecentTransactions(pageSize, cursor) whatever year and month are
\* passed; the entries of a group share the group's day label, adjacent
\* groups have different labels, and nextCursor and hasMore are those of the
\* page.
C31_ActivityGroups ==
  lastOp.op = "getActivityGroups" =>
    LET result == lastOp.result
        recent == getRecentTransactions(transactions, lastOp.limit,
                                        lastOp.cursor)
    IN /\ "groups" \in DOMAIN result
       /\ Flatten(result.groups) = recent.items
       /\ \A month \in Months :
            getActivityGroups(transactions, settings, month, lastOp.limit,
                              lastOp.cursor) = result
       /\ \A g \in 1..Len(result.groups) :
            /\ result.groups[g].entries # <<>>
            /\ \A e \in 1..Len(result.groups[g].entries) :
                 dayLabelOf(settings.locale,
                            result.groups[g].entries[e].date_iso)
                   = result.groups[g].dateLabel
            /\ g > 1 =>
                 result.groups[g].dateLabel # result.groups[g - 1].dateLabel
       /\ result.nextCursor = recent.nextCursor
       /\ result.hasMore = recent.hasMore

\* The same with a locale that is a language tag and dates that are dates.
C31_ActivityGroupsWellFormed ==
  (/\ lastOp.op = "getActivityGroups"
   /\ WellFormedLocale(settings.locale)
   /\ \A i \in 1..Len(transactions) : ValidDate(transactions[i].date_iso))
  => C31_ActivityGroups

\* A page of two entries of one day in one group, asked for another month.
C31_Witness ==
  /\ lastOp.op = "getActivityGroups"
  /\ lastOp.month = <<2024, 1>>
  /\ lastOp.result.error = "none"
  /\ Len(lastOp.result.groups) = 1
  /\ Len(lastOp.result.groups[1].entries) = 2
  /\ lastOp.result.groups[1].entries[1].date_iso = Jan15

\* ------------------------------------------------------------ unique ids
\* The Store of a page opened on empty storage.
InitEmpty == InitMemory /\ storage = FreshStorage

\* Partial records a caller hands to updateTransaction, with and without an
\* id field.
IdUpdates ==
  {UpdateDate, UpdateId}
    \cup {Obj([id |-> id]) : id \in IdsOf(transactions) \cup {IdC}}

NextIds ==
  \/ InitStore
  \/ \E draft \in {DraftFun, DraftIncome} : AddTransaction(draft)
  \/ \E id \in IdsOf(transactions), updates \in IdUpdates :
       UpdateTransaction(id, updates)
  \/ \E id \in IdsOf(transactions) : DeleteTransaction(id)
  \/ \E payload \in {PayloadSmall, PayloadTwice}, strategy \in Strategies :
       ImportData(payload, strategy)

SpecIds == InitEmpty /\ [][NextIds]_vars

UniqueIds(list) ==
  \A i, j \in 1..Len(list) : list[i].id = list[j].id => i = j

\* C32: in every state reached from an empty store by addTransaction,
\* updateTransaction with any partial record (one carrying an id included),
\* deleteTransaction and importData with either strategy, no two
\* transactions carry the same id, and updateTransaction leaves the id of
\* the record it updates as it was.
C32_UniqueIds ==
  /\ [](UniqueIds(transactions))
  /\ [][lastOp'.op = "updateTransaction" =>
          /\ lastOp'.result.f.id = lastOp'.id
          /\ \A id \in IdsOf(transactions) : id \in IdsOf(transactions')]_vars

\* The same for updates that carry no id and payloads that repeat none.
C32_UniqueIdsPlain ==
  [][(/\ UniqueIds(transactions)
      /\ lastOp'.op = "updateTransaction" =>
           Field(lastOp'.updates, "id") = Undef
      /\ lastOp'.op = "importData" =>
           ~(lastOp'.payload = PayloadTwice /\ lastOp'.strategy = "replace"))
     =>
     /\ UniqueIds(transactions')
     /\ lastOp'.op = "updateTransaction" =>
          /\ lastOp'.result.f.id = lastOp'.id
          /\ IdsOf(transactions') = IdsOf(transactions)]_vars

\* ------------------------------------------------------------ durability
NextDurable ==
  \/ InitStore
  \/ \E draft \in {DraftFun, DraftIncome, DraftZero} : AddTransaction(draft)
  \/ \E id \in IdsOf(transactions) :
       \/ UpdateTransaction(id, UpdateDate)
       \/ DeleteTransaction(id)
  \/ AddCategory(Str(FUN), Str(LEISURE))
  \/ ArchiveCategory(Str(GenId(3)), Bool(TRUE))
  \/ AddRecurring(NewTemplate[1], NewTemplate[2], NewTemplate[3])
  \/ SaveSettings(UpdateRule)
  \/ ImportData(PayloadSmall, "merge")
  \/ Reset

SpecDurable == InitEmpty /\ [][NextDurable]_vars

\* C33: after any sequence of Store mutations, init() run again yields
\* settings, categories, recurring templates and transactions equal, in
\* content and order, to those held in memory just before it.
C33_DurableAcrossReload ==
  [][(ready /\ lastOp'.op = "init") =>
       Collections(settings', categories', transactions', recurring')
         = Collections(settings, categories, transactions, recurring)]_vars

\* The same when every transaction in memory has a positive amount.
C33_DurablePositive ==
  [][(/\ ready
      /\ lastOp'.op = "init"
      /\ \A i \in 1..Len(transactions) : IsPositive(transactions[i].amount_cents))
     =>
     Collections(settings', categories', transactions', recurring')
       = Collections(settings, categories, transactions, recurring)]_vars

\* ------------------------------------------------------------ corruption
\* C34: after reset() the state's corruption record is clear (hasCorruption
\* false, no keys) and agrees with the storage adapter's corrupted-key set,
\* also when the init before it had flagged corrupted keys.
C34_ResetClearsCorruption ==
  lastOp.op = "reset" =>
    /\ corruption = [hasCorruption |-> FALSE, keys |-> {}]
    /\ corruption.keys = corruptedKeys
    /\ corruption.hasCorruption = (corruptedKeys # {})

\* The adapter's own set is clear after a reset.
C34_AdapterClear ==
  lastOp.op = "reset" => corruptedKeys = {}

\* ------------------------------------------------------------ stable pages
\* The record the caller's cursor was built from: the last one it was given.
CursorRecord == page.items[Len(page.items)]

\* A caller pages through the list while transactions are added and
\* transactions other than the cursor record are deleted; backups are
\* restored only between two walks.
RestoreBetweenWalks(payload) ==
  /\ page.phase # "open"
  /\ ImportData(payload, "replace")

DeleteOther(id) ==
  /\ page.phase = "open" => id # CursorRecord.id
  /\ DeleteTransaction(id)

NextStable ==
  \/ InitStore
  \/ \E payload \in {PayloadFull, PayloadBar} : RestoreBetweenWalks(payload)
  \/ \E draft \in {DraftFun, DraftIncome} : AddTransaction(draft)
  \/ \E id \in IdsOf(transactions) : DeleteOther(id)
  \/ \E limit \in 1..MaxLimit : PageStart(limit)
  \/ PageNext
  \/ PageClose

SpecStable == InitEmpty /\ [][NextStable]_vars

\* The records that follow record in the sort order of list, limit at most.
Following(list, record, limit) ==
  CHOOSE result \in
    {LET at == CHOOSE i \in 1..Len(sorted) : sorted[i] = record
         end == IF at + limit < Len(sorted) THEN at + limit ELSE Len(sorted)
     IN SubSeq(sorted, at + 1, end) :
     sorted \in {SortTx(list)}} : TRUE

\* C35: when, between two getRecentTransactions calls, transactions are
\* added or transactions other than the cursor record are deleted, the call
\* made with the nextCursor returned before returns the records that follow
\* the cursor record in the current sort order, and none of the records an
\* earlier page returned.
C35_StablePages ==
  [][(/\ page.phase = "open"
      /\ lastOp'.op = "getRecentTransactions"
      /\ lastOp'.cursor # Null)
     =>
     /\ lastOp'.result.items =
          Following(transactions, CursorRecord, lastOp'.limit)
     /\ \A i \in 1..Len(lastOp'.result.items), j \in 1..Len(page.items) :
          lastOp'.result.items[i] # page.items[j]]_vars

\* The same when no id holds the cursor's delimiter.
C35_StablePagesNoBar ==
  [][(/\ page.phase = "open"
      /\ lastOp'.op = "getRecentTransactions"
      /\ lastOp'.cursor # Null
      /\ \A i \in 1..Len(transactions) :
           \A k \in 1..Len(transactions[i].id.s) :
             transactions[i].id.s[k] # BAR)
     =>
     /\ lastOp'.result.items =
          Following(transactions, CursorRecord, lastOp'.limit)
     /\ \A i \in 1..Len(lastOp'.result.items), j \in 1..Len(page.items) :
          lastOp'.result.items[i] # page.items[j]]_vars

\* ------------------------------------------------------------ agreement
TRANSFER == <<136>>

\* A partial record whose type is neither "income" nor "expense".
UpdateTransfer == Obj([type |-> Str(TRANSFER)])

\* App.renderDashboard(): both aggregates of the month shown.
RenderDashboard(month) ==
  /\ ready
  /\ \E totals \in {getMonthlyTotals(transactions, settings, month)},
        spending \in {getSpendingByCategory(transactions, categories, month)} :
       lastOp' = [op |-> "renderDashboard", month |-> month,
                  totals |-> totals, spending |-> spending]
  /\ delivered' = NoDelivery
  /\ UNCHANGED <<settings, categories, transactions, recurring, corruption,
                 storage, corruptedKeys, listeners, nextId, clock, ready,
                 page>>

NextAgree ==
  \/ InitStore
  \/ \E draft \in {DraftFun, DraftRent, DraftGhost, DraftCash, DraftTips} :
       AddTransaction(draft)
  \/ \E id \in IdsOf(transactions), updates \in {UpdateDate, UpdateTransfer} :
       UpdateTransaction(id, updates)
  \/ UpdateCategory(Str(GenId(3)), UpdateName)
  \/ \E month \in Months : RenderDashboard(month)

SpecAgree == Init /\ [][NextAgree]_vars

RECURSIVE SumSpent(_)
\* The sum of spent_cents over the entries.
SumSpent(entries) ==
  IF entries = <<>> THEN Num(0)
  ELSE NumAdd(entries[1].spent_cents, SumSpent(Tail(entries)))

\* C36: for every month, getMonthlyTotals' expense_cents equals the sum of
\* the spent_cents of its four buckets and equals the sum of spent_cents
\* over the entries of getSpendingByCategory for that month.
C36_AggregatesAgree ==
  lastOp.op = "renderDashboard" =>
    LET buckets == lastOp.totals.buckets
    IN /\ lastOp.totals.expense_cents =
            NumAdd(NumAdd(buckets.Necessities.spent_cents,
                          buckets.Leisure.spent_cents),
                   NumAdd(buckets.Savings.spent_cents,
                          buckets.Uncategorized.spent_cents))
       /\ lastOp.totals.expense_cents = SumSpent(lastOp.spending)

\* The same when every transaction is an income or an expense.
C36_AggregatesAgreeTyped ==
  (/\ lastOp.op = "renderDashboard"
   /\ \A i \in 1..Len(transactions) :
        transactions[i].type \in {Str(INCOME), Str(EXPENSE)})
  => C36_AggregatesAgree

\* The four buckets add up to expense_cents whatever the types.
C36_BucketsAddUp ==
  lastOp.op = "renderDashboard" =>
    LET buckets == lastOp.totals.buckets
    IN lastOp.totals.expense_cents =
         NumAdd(NumAdd(buckets.Necessities.spent_cents,
                       buckets.Leisure.spent_cents),
                NumAdd(buckets.Savings.spent_cents,
                       buckets.Uncategorized.spent_cents))

\* ------------------------------------------------------------ re-bucketing
UpdateLeisure == Obj([bucket |-> Str(LEISURE)])

\* Expenses of a category and of none, while categories are renamed, moved
\* to another bucket, archived and restored.
NextRebucket ==
  \/ InitStore
  \/ \E draft \in {DraftFun, DraftCash} : AddTransaction(draft)
  \/ \E id \in {Str(GenId(3)), IdC},
        updates \in {UpdateName, UpdateLeisure, UpdateCategoryId} :
       UpdateCategory(id, updates)
  \/ \E archived \in {Bool(TRUE), Bool(FALSE)} :
       ArchiveCategory(Str(GenId(3)), archived)

SpecRebucket == InitEmpty /\ [][NextRebucket]_vars

\* C37: updateCategory and archiveCategory change only the targeted
\* category: the other categories, the transactions (the bucket stored on
\* those that refer to the category included), the templates and the
\* settings are as before, so for every month getMonthlyTotals returns what
\* it returned before, while getSpendingByCategory reports the category's
\* entry, with the same spent_cents and count, under the name and bucket the
\* update gave the category (an update that changes the category's id leaves
\* the entry without a category).
C37_CategoryUpdateFrame ==
  [][lastOp'.op = "updateCategory" =>
       /\ UNCHANGED <<transactions, recurring, settings>>
       /\ Len(categories') = Len(categories)
       /\ \A i \in 1..Len(categories) :
            categories[i].id # lastOp'.id => categories'[i] = categories[i]
       /\ \A month \in Months :
            /\ getMonthlyTotals(transactions', settings', month)
                 = getMonthlyTotals(transactions, settings, month)
            /\ LET before == getSpendingByCategory(transactions, categories,
                                                   month)
                   after == getSpendingByCategory(transactions', categories',
                                                  month)
               IN /\ Len(after) = Len(before)
                  /\ \A k \in 1..Len(after) :
                       /\ after[k].category_id = before[k].category_id
                       /\ after[k].spent_cents = before[k].spent_cents
                       /\ after[k].count = before[k].count
                       /\ after[k].category_id # lastOp'.id =>
                            after[k] = before[k]
                       /\ (/\ after[k].category_id = lastOp'.id
                           /\ lastOp'.result # Null
                           /\ Field(lastOp'.updates, "id") = Undef)
                          => /\ after[k].bucket = Field(lastOp'.result, "bucket")
                             /\ after[k].name = Field(lastOp'.result, "name")
                             /\ Field(lastOp'.updates, "bucket") \in BUCKETS =>
                                  after[k].bucket =
                                    Field(lastOp'.updates, "bucket")]_vars

\* Fun was moved from Leisure to Savings after an expense of 40 had been
\* entered under it: the expense still counts under Leisure in the totals,
\* while the category's entry reports Savings.
C37_Witness ==
  /\ lastOp.op = "updateCategory"
  /\ lastOp.id = Str(GenId(3))
  /\ Field(lastOp.result, "bucket") = Str(SAVINGS)
  /\ \E i \in 1..Len(transactions) :
       /\ transactions[i].category_id = Str(GenId(3))
       /\ transactions[i].bucket = Str(LEISURE)
       /\ transactions[i].amount_cents = Num(40)
  /\ getMonthlyTotals(transactions, settings, <<2024, 0>>)
       .buckets.Leisure.spent_cents = Num(40)
  /\ getMonthlyTotals(transactions, settings, <<2024, 0>>)
       .buckets.Savings.spent_cents = Num(0)
  /\ \E k \in 1..Len(getSpendingByCategory(transactions, categories,
                                           <<2024, 0>>)) :
       LET e == getSpendingByCategory(transactions, categories,
                                      <<2024, 0>>)[k]
       IN e.category_id = Str(GenId(3)) /\ e.bucket = Str(SAVINGS)

\* ------------------------------------------------------------ merging twice
\* A backup whose transaction carries no id.
PayloadNoId ==
  Payload(Num(STORAGE_VERSION), Undef, Undef, Undef,
          Arr(<<RawTx(Undef, Str(EXPENSE), Num(7), Null, Null, Jan15)>>))

\* A backup that lists one new category id and one template id twice.
PayloadPairs ==
  Payload(Num(STORAGE_VERSION), ImportedSettings,
          Arr(<<RawCat(IdB, Str(FUN), Str(LEISURE)),
                RawCat(IdB, Str(HOUSING), Str(SAVINGS))>>),
          Arr(<<RawRec(IdA, Num(5)), RawRec(IdA, Num(0))>>),
          Arr(<<RawTx(IdB, Str(EXPENSE), Num(7), Null, Null, Jan15),
                RawTx(IdB, Str(EXPENSE), Num(3), Null, Null, Feb01)>>))

\* The caller repeats the merge it has just made: importData(payload,
\* {strategy: "merge"}) with the same payload.
MergeAgain ==
  /\ ready
  /\ lastOp.op = "importData"
  /\ lastOp.strategy = "merge"
  /\ lastOp.error = "none"
  /\ \E r \in {importResult(lastOp.payload, "merge", settings, categories,
                            transactions, recurring, nextId, clock)} :
       /\ r.next - 1 <= MaxIds
       /\ Len(r.transactions) <= MaxTx
       /\ Len(r.categories) <= MaxCats
       /\ Len(r.recurring) <= MaxRec
       /\ Commit(r.settings, r.categories, r.transactions, r.recurring,
                 [type |-> "data:import", strategy |-> "merge"],
                 [op |-> "importData", payload |-> lastOp.payload,
                  strategy |-> "merge", error |-> "none",
                  repeated |-> TRUE])
       /\ nextId' = r.next

NextMerge ==
  \/ InitStore
  \/ AddTransaction(DraftFun)
  \/ \E id \in IdsOf(transactions) : UpdateTransaction(id, UpdateId)
  \/ \E payload \in {PayloadFull, PayloadSmall, PayloadPairs, PayloadNoId} :
       ImportData(payload, "merge")
  \/ ImportData(PayloadTwice, "replace")
  \/ MergeAgain

SpecMerge == Init /\ [][NextMerge]_vars

\* Every record of the list carries an id.
CarryIds(list) ==
  IsArray(list) =>
    \A i \in 1..Len(list.items) :
      IsObject(list.items[i]) => Truthy(Field(list.items[i], "id"))

AllCarryIds(payload) ==
  /\ CarryIds(Field(payload, "categories"))
  /\ CarryIds(Field(payload, "recurring"))
  /\ CarryIds(Field(payload, "transactions"))

\* C38: for a payload whose records all carry ids, importData(payload,
\* {strategy: "merge"}) made a second time right after the first leaves
\* settings, categories, recurring templates and transactions as the first
\* import left them.
C38_MergeIdempotent ==
  [][(/\ lastOp.op = "importData"
      /\ lastOp.strategy = "merge"
      /\ lastOp.error = "none"
      /\ MergeStep
      /\ lastOp'.payload = lastOp.payload
      /\ AllCarryIds(lastOp.payload))
     => UNCHANGED <<settings, categories, recurring, transactions>>]_vars

\* The backup of two records, a category and a template was merged a second
\* time into the store that holds them.
C38_Witness ==
  /\ lastOp.op = "importData"
  /\ "repeated" \in DOMAIN lastOp
  /\ lastOp.payload = PayloadFull
  /\ Len(transactions) = 2
  /\ Len(categories) = 4
  /\ Len(recurring) = 1
  /\ settings.currency = Str(EN_US)

\* ------------------------------------------------------------ partial settings
UpdateCurrency == Obj([currency |-> Str(EN_US), hapticFeedback |-> Bool(TRUE)])
UpdateLeisureShare == Obj([rule |-> Obj([leisure |-> Num(45)])])

NextPartial ==
  \/ InitStore
  \/ \E updates \in {Rule35, UpdateRule, UpdateLeisureShare, UpdateCurrency,
                      UpdateLocaleDe} :
       SaveSettings(updates)
  \/ ImportData(PayloadSmall, "merge")
  \/ Reset

SpecPartial == Init /\ [][NextPartial]_vars

Percentages == {"necessities", "leisure", "savings"}

\* C39: saveSettings(partial) leaves every setting the partial does not name
\* at its current value, and when the partial supplies a rule with only some
\* of the three percentages, the percentages it does not supply keep their
\* current values.
C39_PartialSettings ==
  [][lastOp'.op = "saveSettings" =>
       /\ \A name \in DOMAIN settings :
            Field(lastOp'.updates, name) = Undef =>
              settings'[name] = settings[name]
       /\ IsObject(Field(lastOp'.updates, "rule")) =>
            \A p \in Percentages :
              Field(Field(lastOp'.updates, "rule"), p) = Undef =>
                Field(settings'.rule, p) = Field(settings.rule, p)]_vars

\* The settings the partial does not name keep their values.
C39_UnnamedKept ==
  [][lastOp'.op = "saveSettings" =>
       \A name \in DOMAIN settings :
         Field(lastOp'.updates, name) = Undef =>
           settings'[name] = settings[name]]_vars

====
